---------------------------- MODULE Spec2Model ----------------------------
(***************************************************************************)
(* State-machine model of money-machine: the token-bucket RateLimiter      *)
(* (lines 524-781), the ComplianceEngine (lines 233-505) and the Logger    *)
(* (lines 8-225) of src/src/core/logger.js, the execute method of the      *)
(* GitHubSponsorsStrategy (src/src/strategies/github-sponsors.js), the     *)
(* AccountManager and the MoneyMachine (src/unnamed/part_003), the         *)
(* Scheduler (src/src/core/scheduler.js), the StrategyManager              *)
(* (src/src/core/strategy-manager.js) and createMoneyMachine               *)
(* (src/src/index.js).                                                     *)
(*                                                                         *)
(* The specifications share the operations of the classes:                 *)
(*   Spec           - one caller at a time makes any of the limiter's      *)
(*                    calls while the clock advances between calls;        *)
(*   SpecRefill     - the refill arithmetic, from states with tokens taken;*)
(*   SpecTasks      - asynchronous callers (waitForToken, the compliance   *)
(*                    engine's rate-limit stage, direct calls) interleaving*)
(*                    at their awaits;                                     *)
(*   SpecConfig     - limiters constructed with config.platformLimits;     *)
(*   SpecKeys       - two platform keys, every operation on either;        *)
(*   SpecWait       - waitForToken under a fair timer and scheduler;       *)
(*   SpecCompliance - checkAction over a set of actions and contexts;      *)
(*   SpecViolations - checkAction, generateComplianceReport and            *)
(*                    clearViolations on one engine;                       *)
(*   SpecQuota      - checkAction calls on a platform with one token;      *)
(*   SpecRules      - one checkAction call on any action and context;      *)
(*   SpecStrategy   - execute of the GitHub Sponsors strategy;             *)
(*   SpecLogger     - the Logger's debug, info, warn, error, getLogs and   *)
(*                    clear;                                               *)
(*   SpecAccounts   - the AccountManager's account life cycle;             *)
(*   SpecSpent      - waitForToken on a platform whose minute window is    *)
(*                    spent, under a fair timer;                           *)
(*   SpecMachine    - the MoneyMachine's construction, initialize,         *)
(*                    addAccount, loadStrategy, start and stop;            *)
(*   SpecScheduler  - the Scheduler's scheduleTask, cancelTask and         *)
(*                    shutdown with its interval timers firing;            *)
(*   SpecRun        - a started MoneyMachine whose timers fire and whose   *)
(*                    strategy executions overlap.                         *)
(*                                                                         *)
(* Time is Date.now() in milliseconds.  The minute and hour counters are   *)
(* integers.  The burst counter is a fraction in the code: every amount    *)
(* the code adds to it is elapsedMs * burstLimit / (60000 * 300), so the   *)
(* model stores it exactly, as a whole number of 1/BurstScale tokens       *)
(* (BurstScale = 60000 * 300 units are one token).  Arithmetic is exact    *)
(* rational arithmetic; IEEE rounding of the last bit is not modelled.     *)
(***************************************************************************)
EXTENDS Integers, Sequences, FiniteSets, TLC

VARIABLES
  now,            \* Date.now(), ms
  platforms,      \* this.platforms: a map from the platforms that have a state
  platformLimits, \* this.platformLimits: a map from the overridden platforms
  overridden,     \* history: the platforms setPlatformLimits was called for
  engine,         \* the ComplianceEngine: strictMode, rateLimiter, violations
                  \*   (and, as history, the config it was constructed with)
  logger,         \* the Logger: level, logs (and, as history, the calls made)
  accounts,       \* the AccountManager's this.accounts: platform -> account
  strategy,       \* the GitHubSponsorsStrategy: actions, errors, earnings, ...
  machine,        \* the MoneyMachine: config, initialized, running
  manager,        \* the StrategyManager: strategies, activeStrategies
  scheduler,      \* the Scheduler: tasks, intervals (and the interval timers
                  \*   of the runtime that were started and not cleared)
  tasks,          \* the asynchronous callers: task -> its position and locals
  last,           \* history: the last limiter call, its snapshots and result
  grants,         \* history: platform -> times of its latest admitted calls
                  \*   (tracked from the creation of its state onwards, while
                  \*   its limits stay as they are and no token is released)
  emptiedAt,      \* history: platform -> <<time its burst counter hit 0>>
  race,           \* history: admitted calls since tokens last changed otherwise
  steps           \* history: number of calls and clock advances so far

vars == <<now, platforms, platformLimits, overridden, engine, logger, accounts,
          strategy, machine, manager, scheduler, tasks, last, grants,
          emptiedAt, race, steps>>

---------------------------------------------------------------------------
(* Bounds of the model *)

MaxSteps == 6
MaxGrantsKept == 2

(* Program constants *)

MinuteMs == 60000
HourMs == 3600000
BurstRefillDivisor == 300
DefaultRequestsPerMinute == 60
DefaultRequestsPerHour == 1000
DefaultBurstLimit == 10
PollMs == 1000

BurstScale == MinuteMs * BurstRefillDivisor

Platforms == {"p"}

\* Amounts by which the clock moves between calls (ms).
Elapses == {30000, 300000, 3600000}

Fields == {"requestsPerMinute", "requestsPerHour", "burstLimit"}

Windows == {"minute", "hour", "burst"}

\* Arguments of setPlatformLimits: objects giving some or all of the fields.
LimitArgs ==
  { [requestsPerMinute |-> 1, requestsPerHour |-> 1, burstLimit |-> 1],
    [requestsPerMinute |-> 1],
    [burstLimit |-> 2] }

\* new Map() / {}
EmptyMap == [p \in {} |-> {}]

\* map.set(key, value) / object[key] = value
MapSet(map, key, value) ==
  [k \in DOMAIN map \cup {key} |-> IF k = key THEN value ELSE map[k]]

Min(a, b) == IF a <= b THEN a ELSE b

\* <<q, r>> with a * b = q * c + r and 0 <= r < c, for a, b >= 0 and c > 0,
\* computed without forming the product a * b.
RECURSIVE MulDivMod(_, _, _)
MulDivMod(a, b, c) ==
  IF b = 0 THEN <<0, 0>>
  ELSE LET h  == MulDivMod(a, b \div 2, c)
           q2 == 2 * h[1] + ((2 * h[2]) \div c)
           r2 == (2 * h[2]) % c
       IN  IF b % 2 = 0 THEN <<q2, r2>>
           ELSE <<q2 + (a \div c) + ((r2 + (a % c)) \div c), (r2 + (a % c)) % c>>

\* Math.min(cap, x + elapsed * rate) for x < cap, elapsed >= 0 and rate > 0,
\* computed without forming a product that is beyond cap anyway.
MinOfSum(cap, x, elapsed, rate) ==
  IF elapsed > (cap - x) \div rate THEN cap ELSE Min(cap, x + elapsed * rate)

\* Math.floor((elapsed / window) * limit)
FloorRefill(elapsed, window, limit) == MulDivMod(elapsed, limit, window)[1]

\* A value that is not a number: undefined (a field an object does not have)
\* and the NaN every arithmetic on it gives.  It is below every number the
\* limiter holds.
NaN == 0 - 2 * BurstScale

IsNaN(x) == x = NaN

\* Math.min(a, b)
JsMin(a, b) == IF IsNaN(a) \/ IsNaN(b) THEN NaN ELSE Min(a, b)

\* a + b
JsAdd(a, b) == IF IsNaN(a) \/ IsNaN(b) THEN NaN ELSE a + b

\* a < b
JsLess(a, b) == ~IsNaN(a) /\ ~IsNaN(b) /\ a < b

\* A number of burst tokens in the unit of the burst counter.
Scaled(x) == IF IsNaN(x) THEN NaN ELSE x * BurstScale

\* Math.min(limit, counter + Math.floor((elapsed / window) * limit))
WindowTopUp(limit, counter, elapsed, window) ==
  IF IsNaN(limit) \/ IsNaN(counter) THEN NaN
  ELSE Min(limit, counter + FloorRefill(elapsed, window, limit))

\* Math.min(burstLimit, burst + (elapsed / 60000) * burstLimit / 300) when
\* burst < burstLimit, and burst otherwise.
BurstTopUp(burstLimit, burst, elapsed) ==
  IF JsLess(burst, Scaled(burstLimit))
  THEN MinOfSum(Scaled(burstLimit), burst, elapsed, burstLimit)
  ELSE burst

---------------------------------------------------------------------------
(* RateLimiter *)

defaultLimits ==
  [requestsPerMinute |-> DefaultRequestsPerMinute,
   requestsPerHour   |-> DefaultRequestsPerHour,
   burstLimit        |-> DefaultBurstLimit]

\* Mutant: the given fields are merged over the override already in place.
MergeOverOverride(limits) ==
  LET prior == IF DOMAIN platformLimits = {} THEN defaultLimits
               ELSE platformLimits[CHOOSE p \in DOMAIN platformLimits : TRUE]
  IN  [f \in Fields |-> IF f \in DOMAIN limits THEN limits[f] ELSE prior[f]]

\* { ...this.defaultLimits, ...limits }
MergeLimits(limits) ==
  [f \in Fields |-> IF f \in DOMAIN limits THEN limits[f] ELSE defaultLimits[f]]

\* The state getPlatformState creates at time t with the given limits.
NewState(limits, t) ==
  [limits     |-> limits,
   tokens     |-> [minute |-> limits.requestsPerMinute,
                   hour   |-> limits.requestsPerHour,
                   burst  |-> Scaled(limits.burstLimit)],
   lastRefill |-> [minute |-> t, hour |-> t],
   queue      |-> <<>>]

\* Some of the property names every plain object inherits from
\* Object.prototype: object[name] is a function for each of them, also when
\* the object literal does not list the name.
ObjectPrototypeKeys == {"constructor", "toString"}

\* this.platformLimits[platform] || { ...this.defaultLimits }: the override,
\* or the inherited property of the name (truthy, with none of the three
\* limits, which read as undefined), or the defaults.
LimitsFor(p) ==
  IF p \in DOMAIN platformLimits THEN platformLimits[p]
  ELSE IF p \in ObjectPrototypeKeys THEN [f \in Fields |-> NaN]
  ELSE defaultLimits

\* getPlatformState(platform): the existing state, or a new one seeded from
\* the platform's override, or else from the defaults.
GetPlatformState(p) ==
  IF p \in DOMAIN platforms THEN platforms[p]
  ELSE NewState(LimitsFor(p), now)

\* Mutant: the minute and hour windows refill in proportion to the elapsed
\* time, without waiting for a whole window to elapse.
RefillTokensLinear(state, t) ==
  LET msSinceMinute == t - state.lastRefill.minute
      msSinceHour   == t - state.lastRefill.hour
  IN  [state EXCEPT
       !.tokens =
         [minute |-> WindowTopUp(state.limits.requestsPerMinute,
                                 state.tokens.minute, msSinceMinute, MinuteMs),
          hour   |-> WindowTopUp(state.limits.requestsPerHour,
                                 state.tokens.hour, msSinceHour, HourMs),
          burst  |-> BurstTopUp(state.limits.burstLimit, state.tokens.burst,
                                msSinceMinute)],
       !.lastRefill = [minute |-> t, hour |-> t]]

\* Mutant: the burst refill uses the time since lastRefill.minute as the
\* minute branch has left it.
RefillTokensBurstAfterMinute(state, t) ==
  LET msSinceMinute == t - state.lastRefill.minute
      msSinceHour   == t - state.lastRefill.hour
      minuteDue     == msSinceMinute >= MinuteMs
      hourDue       == msSinceHour >= HourMs
  IN  [state EXCEPT
       !.tokens =
         [minute |-> IF minuteDue
                     THEN WindowTopUp(state.limits.requestsPerMinute,
                                      state.tokens.minute, msSinceMinute,
                                      MinuteMs)
                     ELSE state.tokens.minute,
          hour   |-> IF hourDue
                     THEN WindowTopUp(state.limits.requestsPerHour,
                                      state.tokens.hour, msSinceHour, HourMs)
                     ELSE state.tokens.hour,
          burst  |-> BurstTopUp(state.limits.burstLimit, state.tokens.burst,
                                IF minuteDue THEN 0 ELSE msSinceMinute)],
       !.lastRefill =
         [minute |-> IF minuteDue THEN t ELSE state.lastRefill.minute,
          hour   |-> IF hourDue THEN t ELSE state.lastRefill.hour]]

\* refillTokens(state) at Date.now() = t.  The burst refill uses the time
\* since lastRefill.minute as read on entry, before the minute branch may
\* reset it.
RefillTokens(state, t) ==
  LET msSinceMinute == t - state.lastRefill.minute
      msSinceHour   == t - state.lastRefill.hour
      minuteDue     == msSinceMinute >= MinuteMs
      hourDue       == msSinceHour >= HourMs
  IN  [state EXCEPT
       !.tokens =
         [minute |-> IF minuteDue
                     THEN WindowTopUp(state.limits.requestsPerMinute,
                                      state.tokens.minute, msSinceMinute,
                                      MinuteMs)
                     ELSE state.tokens.minute,
          hour   |-> IF hourDue
                     THEN WindowTopUp(state.limits.requestsPerHour,
                                      state.tokens.hour, msSinceHour, HourMs)
                     ELSE state.tokens.hour,
          burst  |-> BurstTopUp(state.limits.burstLimit, state.tokens.burst,
                                msSinceMinute)],
       !.lastRefill =
         [minute |-> IF minuteDue THEN t ELSE state.lastRefill.minute,
          hour   |-> IF hourDue THEN t ELSE state.lastRefill.hour]]

\* Mutant: the admission test forgets the hour window.
TokensAvailableNoHour(tokens) ==
  tokens.minute > 0 /\ tokens.burst > 0

\* Mutant: the admission test accepts an empty counter.
TokensAvailableOrEmpty(tokens) ==
  tokens.minute >= 0 /\ tokens.hour >= 0 /\ tokens.burst >= 0

\* The admission test of acquireToken.
TokensAvailable(tokens) ==
  tokens.minute > 0 /\ tokens.hour > 0 /\ tokens.burst > 0

\* Mutant: the burst counter is not debited.
DebitNoBurst(tokens) ==
  [minute |-> tokens.minute - 1,
   hour   |-> tokens.hour - 1,
   burst  |-> tokens.burst]

\* state.tokens.minute--; state.tokens.hour--; state.tokens.burst--
Debit(tokens) ==
  [minute |-> tokens.minute - 1,
   hour   |-> tokens.hour - 1,
   burst  |-> tokens.burst - BurstScale]

\* Mutant: each window is tested and debited in turn, so a refusal by a
\* later window leaves the earlier ones debited.
AcquireOutcomeStepwise(refilled) ==
  LET t  == refilled.tokens
      m  == t.minute > 0
      h  == m /\ t.hour > 0
      b  == h /\ t.burst > 0
  IN  [state |-> [refilled EXCEPT !.tokens =
                    [minute |-> IF m THEN t.minute - 1 ELSE t.minute,
                     hour   |-> IF h THEN t.hour - 1 ELSE t.hour,
                     burst  |-> IF b THEN t.burst - BurstScale ELSE t.burst]],
       ret   |-> b]

\* acquireToken after its refill: the state it leaves and the value it returns.
AcquireOutcome(refilled) ==
  IF TokensAvailable(refilled.tokens)
  THEN [state |-> [refilled EXCEPT !.tokens = Debit(refilled.tokens)],
        ret   |-> TRUE]
  ELSE [state |-> refilled, ret |-> FALSE]

\* Mutant: the credit is not clamped to the limit.
CreditUnclamped(state) ==
  [minute |-> JsAdd(state.tokens.minute, 1),
   hour   |-> JsAdd(state.tokens.hour, 1),
   burst  |-> JsAdd(state.tokens.burst, BurstScale)]

\* The three Math.min(limit, counter + 1) of releaseToken.
Credit(state) ==
  [minute |-> JsMin(state.limits.requestsPerMinute,
                    JsAdd(state.tokens.minute, 1)),
   hour   |-> JsMin(state.limits.requestsPerHour, JsAdd(state.tokens.hour, 1)),
   burst  |-> JsMin(Scaled(state.limits.burstLimit),
                    JsAdd(state.tokens.burst, BurstScale))]

---------------------------------------------------------------------------
(* History bookkeeping (no effect on the program's state) *)

NoCall == [op |-> "none", at |-> 0]

\* No Logger is in use.
NoLogger == [level |-> "info", logs |-> <<>>, calls |-> <<>>, cleared |-> 0]

\* No strategy is in use.
NoStrategy ==
  [status |-> "initialized", earnings |-> 0, actions |-> 0, errors |-> <<>>,
   complianceEngine |-> FALSE, lastFetchedData |-> <<>>,
   config |-> [githubToken |-> FALSE, login |-> FALSE]]

\* No MoneyMachine has been constructed.
NoMachine ==
  [made |-> FALSE, initialized |-> FALSE, running |-> FALSE,
   config |-> EmptyMap]

\* new StrategyManager(): no strategy loaded, none active; calls are the
\* executeStrategy calls made so far and where each of them stands.
NoManager == [strategies |-> <<>>, activeStrategies |-> {}, calls |-> <<>>]

\* new Scheduler(): no task, no interval; the runtime has no interval timer
\* (timers, numbered as they are started; shut is history).
NoScheduler ==
  [tasks |-> EmptyMap, intervals |-> EmptyMap, running |-> FALSE,
   timers |-> {}, started |-> 0, shut |-> {}]

\* No ComplianceEngine has been constructed on the limiter.
NoEngine ==
  [strictMode |-> TRUE, rateLimiter |-> FALSE, violations |-> <<>>,
   config |-> EmptyMap]

KeepLatest(seq) ==
  IF Len(seq) > MaxGrantsKept THEN SubSeq(seq, 2, Len(seq)) ELSE seq

\* The results of the acquireToken calls made on p since its state was
\* created, while the creation and all of them happened at the present
\* instant with no other call in between; <<>> otherwise.
Streak(p, ret) ==
  IF p \notin DOMAIN platforms THEN <<ret>>
  ELSE IF /\ last.op = "acquireToken"
          /\ last.platform = p
          /\ last.at = now
          /\ last.streak # <<>>
       THEN Append(last.streak, ret)
       ELSE <<>>

Cleared == [p \in Platforms |-> <<>>]

Untracked == [p \in Platforms |-> [on |-> FALSE, times |-> <<>>]]

\* <<the states reset() has just cleared>> when the last call was a reset()
\* at the present instant, and <<>> otherwise.
SinceReset ==
  IF last.op = "reset" /\ last.at = now THEN <<last.pre>> ELSE <<>>

\* grants after a call on p that creates p's state when it has none.
Tracked(p) ==
  IF p \in DOMAIN platforms THEN grants
  ELSE [grants EXCEPT ![p] = [on |-> TRUE, times |-> <<>>]]

---------------------------------------------------------------------------
(* Operations *)

\* new RateLimiter(): no state, no override (config = {}).
Init ==
  /\ now = 0
  /\ platforms = EmptyMap
  /\ platformLimits = EmptyMap
  /\ overridden = {}
  /\ logger = NoLogger
  /\ accounts = EmptyMap
  /\ strategy = NoStrategy
  /\ machine = NoMachine
  /\ manager = NoManager
  /\ scheduler = NoScheduler
  /\ engine = NoEngine
  /\ tasks = EmptyMap
  /\ last = NoCall
  /\ grants = Untracked
  /\ emptiedAt = Cleared
  /\ race = EmptyMap
  /\ steps = 0

CanStep == steps < MaxSteps

\* acquireToken(platform)
AcquireToken(p) ==
  /\ CanStep
  /\ LET pre == GetPlatformState(p)
         mid == RefillTokens(pre, now)
         out == AcquireOutcome(mid)
     IN  /\ platforms' = MapSet(platforms, p, out.state)
         /\ last' = [op |-> "acquireToken", platform |-> p, at |-> now,
                     pre |-> pre, mid |-> mid, ret |-> out.ret,
                     streak |-> Streak(p, out.ret)]
         /\ grants' = IF out.ret
                      THEN [Tracked(p) EXCEPT
                              ![p].times = KeepLatest(Append(@, now))]
                      ELSE Tracked(p)
         /\ emptiedAt' = IF out.ret
                         THEN [emptiedAt EXCEPT ![p] =
                                 IF out.state.tokens.burst = 0
                                 THEN <<now>> ELSE <<>>]
                         ELSE emptiedAt
  /\ steps' = steps + 1
  /\ UNCHANGED <<now, platformLimits, overridden, engine, logger, accounts,
                 strategy, machine, manager, scheduler, tasks, race>>

\* releaseToken(platform)
ReleaseToken(p) ==
  /\ CanStep
  /\ LET pre == GetPlatformState(p)
     IN  /\ platforms' = MapSet(platforms, p, [pre EXCEPT !.tokens = Credit(pre)])
         /\ last' = [op |-> "releaseToken", platform |-> p, at |-> now,
                     pre |-> pre]
  /\ grants' = [grants EXCEPT ![p] = [on |-> FALSE, times |-> <<>>]]
  /\ emptiedAt' = [emptiedAt EXCEPT ![p] = <<>>]
  /\ steps' = steps + 1
  /\ UNCHANGED <<now, platformLimits, overridden, engine, logger, accounts,
                 strategy, machine, manager, scheduler, tasks, race>>

\* getRemainingQuota(platform)
GetRemainingQuota(p) ==
  /\ CanStep
  /\ LET pre == GetPlatformState(p)
         mid == RefillTokens(pre, now)
     IN  /\ platforms' = MapSet(platforms, p, mid)
         /\ last' = [op |-> "getRemainingQuota", platform |-> p, at |-> now,
                     pre |-> pre, mid |-> mid, ret |-> mid.tokens,
                     sinceReset |-> SinceReset]
  /\ grants' = Tracked(p)
  /\ steps' = steps + 1
  /\ UNCHANGED <<now, platformLimits, overridden, engine, logger, accounts,
                 strategy, machine, manager, scheduler, tasks, emptiedAt,
                 race>>

\* Math.ceil(a / b) for b > 0
CeilDiv(a, b) == 0 - ((0 - a) \div b)

\* The object getResetTime builds from a state at Date.now() = t.
ResetTimes(state, t) ==
  [minute |-> state.lastRefill.minute + MinuteMs,
   hour   |-> state.lastRefill.hour + HourMs,
   minutesUntilMinuteReset |->
     CeilDiv(state.lastRefill.minute + MinuteMs - t, MinuteMs),
   minutesUntilHourReset |->
     CeilDiv(state.lastRefill.hour + HourMs - t, MinuteMs)]

\* Mutant: getResetTime refills the state before it reads it.
GetResetTimeRefilling(p) ==
  /\ CanStep
  /\ LET mid == RefillTokens(GetPlatformState(p), now)
     IN  /\ platforms' = MapSet(platforms, p, mid)
         /\ last' = [op |-> "getResetTime", platform |-> p, at |-> now,
                     pre |-> platforms, ret |-> ResetTimes(mid, now)]
  /\ grants' = Tracked(p)
  /\ steps' = steps + 1
  /\ UNCHANGED <<now, platformLimits, overridden, engine, logger, accounts,
                 strategy, machine, manager, scheduler, tasks, emptiedAt,
                 race>>

\* getResetTime(platform)
GetResetTime(p) ==
  /\ CanStep
  /\ LET state == GetPlatformState(p)
     IN  /\ platforms' = MapSet(platforms, p, state)
         /\ last' = [op |-> "getResetTime", platform |-> p, at |-> now,
                     pre |-> platforms, ret |-> ResetTimes(state, now)]
  /\ grants' = Tracked(p)
  /\ steps' = steps + 1
  /\ UNCHANGED <<now, platformLimits, overridden, engine, logger, accounts,
                 strategy, machine, manager, scheduler, tasks, emptiedAt,
                 race>>

\* getStats(): refills every existing state.
GetStats ==
  /\ CanStep
  /\ platforms' = [p \in DOMAIN platforms |-> RefillTokens(platforms[p], now)]
  /\ last' = [op |-> "getStats", at |-> now, pre |-> platforms,
              ret |-> platforms']
  /\ steps' = steps + 1
  /\ UNCHANGED <<now, platformLimits, overridden, engine, logger, accounts,
                 strategy, machine, manager, scheduler, tasks, grants,
                 emptiedAt, race>>

\* Mutant: the counters of an existing state are cut down to the new limits.
SetPlatformLimitsClamping(p, limits) ==
  /\ CanStep
  /\ platformLimits' = MapSet(platformLimits, p, MergeLimits(limits))
  /\ overridden' = overridden \cup {p}
  /\ platforms' =
       IF p \in DOMAIN platforms
       THEN [platforms EXCEPT
               ![p].limits = MergeLimits(limits),
               ![p].tokens =
                 [minute |-> JsMin(MergeLimits(limits).requestsPerMinute,
                                   @.minute),
                  hour   |-> JsMin(MergeLimits(limits).requestsPerHour, @.hour),
                  burst  |-> JsMin(Scaled(MergeLimits(limits).burstLimit),
                                   @.burst)]]
       ELSE platforms
  /\ last' = [op |-> "setPlatformLimits", platform |-> p, at |-> now,
              arg |-> limits, pre |-> platforms, preLimits |-> platformLimits]
  /\ grants' = IF p \in DOMAIN platforms
               THEN [grants EXCEPT ![p] = [on |-> FALSE, times |-> <<>>]]
               ELSE grants
  /\ emptiedAt' = [emptiedAt EXCEPT ![p] = <<>>]
  /\ steps' = steps + 1
  /\ UNCHANGED <<now, engine, logger, accounts, strategy, machine, manager,
                 scheduler, tasks, race>>

\* Mutant: the new limits are given to every existing state.
SetPlatformLimitsEverywhere(p, limits) ==
  /\ CanStep
  /\ platformLimits' = MapSet(platformLimits, p, MergeLimits(limits))
  /\ overridden' = overridden \cup {p}
  /\ platforms' = [q \in DOMAIN platforms |->
                     [platforms[q] EXCEPT !.limits = MergeLimits(limits)]]
  /\ last' = [op |-> "setPlatformLimits", platform |-> p, at |-> now,
              arg |-> limits, pre |-> platforms, preLimits |-> platformLimits]
  /\ grants' = IF p \in DOMAIN platforms
               THEN [grants EXCEPT ![p] = [on |-> FALSE, times |-> <<>>]]
               ELSE grants
  /\ emptiedAt' = [emptiedAt EXCEPT ![p] = <<>>]
  /\ steps' = steps + 1
  /\ UNCHANGED <<now, engine, logger, accounts, strategy, machine, manager,
                 scheduler, tasks, race>>

\* setPlatformLimits(platform, limits)
SetPlatformLimits(p, limits) ==
  /\ CanStep
  /\ platformLimits' = MapSet(platformLimits, p, MergeLimits(limits))
  /\ overridden' = overridden \cup {p}
  /\ platforms' = IF p \in DOMAIN platforms
                  THEN [platforms EXCEPT ![p].limits = MergeLimits(limits)]
                  ELSE platforms
  /\ last' = [op |-> "setPlatformLimits", platform |-> p, at |-> now,
              arg |-> limits, pre |-> platforms, preLimits |-> platformLimits]
  /\ grants' = IF p \in DOMAIN platforms
               THEN [grants EXCEPT ![p] = [on |-> FALSE, times |-> <<>>]]
               ELSE grants
  /\ emptiedAt' = [emptiedAt EXCEPT ![p] = <<>>]
  /\ steps' = steps + 1
  /\ UNCHANGED <<now, engine, logger, accounts, strategy, machine, manager,
                 scheduler, tasks, race>>

\* reset()
Reset ==
  /\ CanStep
  /\ platforms' = EmptyMap
  /\ last' = [op |-> "reset", at |-> now, pre |-> platforms]
  /\ grants' = Untracked
  /\ emptiedAt' = Cleared
  /\ steps' = steps + 1
  /\ UNCHANGED <<now, platformLimits, overridden, engine, logger, accounts,
                 strategy, machine, manager, scheduler, tasks, race>>

\* Wall-clock time passes between two calls.
Advance(d) ==
  /\ CanStep
  /\ now' = now + d
  /\ steps' = steps + 1
  /\ UNCHANGED <<platforms, platformLimits, overridden, engine, logger,
                 accounts, strategy, machine, manager, scheduler, tasks, last,
                 grants, emptiedAt, race>>

Next ==
  \/ \E p \in Platforms : AcquireToken(p)
  \/ \E p \in Platforms : ReleaseToken(p)
  \/ \E p \in Platforms : GetRemainingQuota(p)
  \/ \E p \in Platforms : GetResetTime(p)
  \/ GetStats
  \/ \E p \in Platforms, limits \in LimitArgs : SetPlatformLimits(p, limits)
  \/ Reset
  \/ \E d \in Elapses : Advance(d)

Spec == Init /\ [][Next]_vars

---------------------------------------------------------------------------
(* Properties of the limiter, checked under Spec *)

\* The ceiling of each counter, in the counter's own unit.
Ceiling(limits) ==
  [minute |-> limits.requestsPerMinute,
   hour   |-> limits.requestsPerHour,
   burst  |-> Scaled(limits.burstLimit)]

LastIs(op) == last.op = op

\* C1: no token counter (minute, hour, burst) of any platform is ever
\* negative, after any sequence of calls and clock advances.
C1_TokensNeverNegative ==
  \A p \in DOMAIN platforms :
    \A w \in Windows : platforms[p].tokens[w] >= 0

\* C2: every snapshot returned by getRemainingQuota is at most the platform's
\* current limit in each window, also after setPlatformLimits lowered the
\* limits of an existing state.
C2_QuotaWithinLimits ==
  LastIs("getRemainingQuota") =>
    \A w \in Windows :
      last.ret[w] <= Ceiling(platforms[last.platform].limits)[w]

\* C3 as stated: when acquireToken returns false, the three counters equal
\* their values immediately before the call.
C3_FailedAcquireKeepsPreCallTokens ==
  (LastIs("acquireToken") /\ ~last.ret) =>
    platforms[last.platform].tokens = last.pre.tokens

\* C3, amended: when acquireToken returns false, the three counters equal
\* their values right after the call's own refill step (the refusal debits
\* nothing), and they equal the pre-call values whenever that refill step
\* added nothing.
C3_FailedAcquireDebitsNothing ==
  (LastIs("acquireToken") /\ ~last.ret) =>
    /\ platforms[last.platform].tokens = last.mid.tokens
    /\ platforms[last.platform].lastRefill = last.mid.lastRefill
    /\ platforms[last.platform].limits = last.pre.limits
    /\ (/\ last.at - last.pre.lastRefill.minute = 0
        /\ last.at - last.pre.lastRefill.hour < HourMs)
         => platforms[last.platform].tokens = last.pre.tokens

\* A refused acquireToken whose refill step had raised a counter.
C3_Witness ==
  /\ LastIs("acquireToken")
  /\ ~last.ret
  /\ last.mid.tokens.minute > last.pre.tokens.minute
  /\ last.mid.tokens.burst > last.pre.tokens.burst
  /\ last.mid.tokens.hour = 0

\* C4: acquireToken returns true exactly when, after its refill step, all
\* three counters are strictly positive; then each counter ends exactly one
\* token below its post-refill value, and otherwise none is debited: no call
\* debits only some of the counters.
C4_AdmissionAllOrNothing ==
  LastIs("acquireToken") =>
    LET after == platforms[last.platform].tokens
        mid   == last.mid.tokens
    IN  /\ last.ret = (mid.minute > 0 /\ mid.hour > 0 /\ mid.burst > 0)
        /\ last.ret => /\ after.minute = mid.minute - 1
                       /\ after.hour = mid.hour - 1
                       /\ after.burst = mid.burst - BurstScale
        /\ ~last.ret => after = mid

\* An admitted call, and the refusal that follows it at the same instant
\* because one window only is empty.
C4_Witness ==
  /\ LastIs("acquireToken")
  /\ ~last.ret
  /\ last.streak = <<TRUE, FALSE>>
  /\ last.mid.tokens.minute = 0
  /\ last.mid.tokens.hour > 0
  /\ last.mid.tokens.burst > 0

\* C6: on a platform whose state is created with burstLimit = 2 and larger
\* minute and hour limits, of three acquireToken calls made one after the
\* other at the instant of creation the first two return true and the third
\* returns false, while the minute and hour counters are still positive.
C6_BurstExhaustion ==
  (/\ LastIs("acquireToken")
   /\ Len(last.streak) = 3
   /\ last.pre.limits.burstLimit = 2
   /\ last.pre.limits.requestsPerMinute > 2
   /\ last.pre.limits.requestsPerHour > 2)
    => /\ last.streak = <<TRUE, TRUE, FALSE>>
       /\ platforms[last.platform].tokens.minute > 0
       /\ platforms[last.platform].tokens.hour > 0
       /\ platforms[last.platform].tokens.burst = 0

C6_Witness ==
  /\ LastIs("acquireToken")
  /\ last.streak = <<TRUE, TRUE, FALSE>>
  /\ last.pre.limits.burstLimit = 2
  /\ last.pre.limits.requestsPerMinute > 2
  /\ last.pre.limits.requestsPerHour > 2

\* C7: with the limits fixed and no releaseToken, no interval of 60 000 ms
\* holds more than requestsPerMinute admitted acquireToken calls.  (grants
\* keeps the times of the latest admitted calls of a platform from the creation
\* of its state on, and stops at a setPlatformLimits or a releaseToken.)
C7_MinuteRateRespected ==
  \A p \in DOMAIN platforms :
    LET g == grants[p].times
        m == platforms[p].limits.requestsPerMinute
    IN  (grants[p].on /\ Len(g) > m) => g[Len(g)] - g[Len(g) - m] >= MinuteMs

\* C9: once the burst counter is 0 and no acquireToken or releaseToken
\* succeeds afterwards, getRemainingQuota reports burst = burstLimit when
\* 300 000 ms have elapsed and less than burstLimit before.
C9_BurstRestoredInFiveMinutes ==
  (LastIs("getRemainingQuota") /\ emptiedAt[last.platform] # <<>>) =>
    LET cap     == Ceiling(platforms[last.platform].limits).burst
        elapsed == last.at - emptiedAt[last.platform][1]
    IN  IF elapsed >= 5 * MinuteMs
        THEN last.ret.burst = cap
        ELSE last.ret.burst < cap

\* C10: releaseToken sets each counter to min(limit, counter + 1): no
\* counter is above its limit afterwards, and a release on a platform whose
\* counters are all at their limits changes nothing.
C10_ReleaseClamps ==
  LastIs("releaseToken") =>
    LET after == platforms[last.platform].tokens
        pre   == last.pre.tokens
        cap   == Ceiling(platforms[last.platform].limits)
    IN  /\ \A w \in Windows : after[w] <= cap[w]
        /\ after.minute = (IF pre.minute + 1 <= cap.minute
                           THEN pre.minute + 1 ELSE cap.minute)
        /\ after.hour = (IF pre.hour + 1 <= cap.hour
                         THEN pre.hour + 1 ELSE cap.hour)
        /\ after.burst = (IF pre.burst + BurstScale <= cap.burst
                          THEN pre.burst + BurstScale ELSE cap.burst)
        /\ (\A w \in Windows : pre[w] = cap[w]) => after = pre
        /\ platforms[last.platform].lastRefill = last.pre.lastRefill
        /\ platforms[last.platform].limits = last.pre.limits

\* A release that is clamped in one window (the counter was above a lowered
\* limit) and credits a whole token in another.
C10_Witness ==
  /\ LastIs("releaseToken")
  /\ last.pre.tokens.minute > last.pre.limits.requestsPerMinute
  /\ platforms[last.platform].tokens.minute = last.pre.limits.requestsPerMinute
  /\ platforms[last.platform].tokens.hour = last.pre.tokens.hour + 1

\* The limits C11 names for platform p: the override set by setPlatformLimits
\* if there is one, and the defaults otherwise.
LimitsSetFor(p) ==
  IF p \in overridden THEN platformLimits[p] ELSE defaultLimits

\* C11: getRemainingQuota(platform) called right after reset() returns
\* minute = requestsPerMinute, hour = requestsPerHour and burst = burstLimit
\* of the override setPlatformLimits set for the platform, or of the defaults
\* {60, 1000, 10} when it set none, whatever the counters were before.
C11_ResetRestoresFullQuota ==
  (LastIs("getRemainingQuota") /\ last.sinceReset # <<>>) =>
    last.ret = Ceiling(LimitsSetFor(last.platform))

\* C12: setPlatformLimits on a platform whose state exists changes only that
\* state's limits: the three counters and both lastRefill timestamps are the
\* same right after the call as right before it.
C12_SetLimitsKeepsCounters ==
  (LastIs("setPlatformLimits") /\ last.platform \in DOMAIN last.pre) =>
    /\ last.platform \in DOMAIN platforms
    /\ platforms[last.platform].tokens = last.pre[last.platform].tokens
    /\ platforms[last.platform].lastRefill =
         last.pre[last.platform].lastRefill
    /\ platforms[last.platform].queue = last.pre[last.platform].queue

\* The limits of a state are lowered below the tokens the state holds.
C12_Witness ==
  /\ LastIs("setPlatformLimits")
  /\ last.platform \in DOMAIN last.pre
  /\ platforms[last.platform].limits # last.pre[last.platform].limits
  /\ platforms[last.platform].tokens.minute
       > platforms[last.platform].limits.requestsPerMinute
  /\ platforms[last.platform].tokens.minute
       < last.pre[last.platform].limits.requestsPerMinute
  /\ platforms[last.platform].lastRefill.minute < now

\* C13: after setPlatformLimits(platform, L) each of the platform's limits,
\* in the override and in the platform's state if it has one, is the value L
\* gives for it, and the default (60 / 1000 / 10) if L does not give it,
\* whatever override an earlier call had set.
C13_LimitsMergedOverDefaults ==
  LastIs("setPlatformLimits") =>
    LET merged == [f \in Fields |->
                     IF f \in DOMAIN last.arg THEN last.arg[f]
                     ELSE IF f = "requestsPerMinute"
                          THEN DefaultRequestsPerMinute
                          ELSE IF f = "requestsPerHour"
                               THEN DefaultRequestsPerHour
                               ELSE DefaultBurstLimit]
    IN  /\ last.platform \in DOMAIN platformLimits
        /\ platformLimits[last.platform] = merged
        /\ last.platform \in DOMAIN platforms
             => platforms[last.platform].limits = merged
        /\ (last.platform \in DOMAIN platforms)
             = (last.platform \in DOMAIN last.pre)

\* A second override that leaves out a field the first one had lowered: the
\* field is back at its default, in the override and in the existing state.
C13_Witness ==
  /\ LastIs("setPlatformLimits")
  /\ last.platform \in DOMAIN last.preLimits
  /\ last.platform \in DOMAIN last.pre
  /\ "requestsPerMinute" \notin DOMAIN last.arg
  /\ last.preLimits[last.platform].requestsPerMinute = 1
  /\ last.pre[last.platform].limits.requestsPerMinute = 1
  /\ platforms[last.platform].limits.requestsPerMinute
       = DefaultRequestsPerMinute

\* C17: getResetTime does not change the limiter's state: every platform
\* state that exists before the call has the same limits, counters and
\* lastRefill timestamps after it, also when a refill is due; it returns
\* the two lastRefill timestamps moved on by one window.
C17_GetResetTimeReadsOnly ==
  LastIs("getResetTime") =>
    /\ \A q \in DOMAIN last.pre :
         q \in DOMAIN platforms /\ platforms[q] = last.pre[q]
    /\ last.ret.minute = platforms[last.platform].lastRefill.minute + 60000
    /\ last.ret.hour = platforms[last.platform].lastRefill.hour + 3600000

\* getResetTime on a state whose minute window has run out and whose minute
\* and burst counters a refill would raise.
C17_Witness ==
  /\ LastIs("getResetTime")
  /\ last.platform \in DOMAIN last.pre
  /\ last.at - platforms[last.platform].lastRefill.minute >= MinuteMs
  /\ platforms[last.platform].tokens.minute
       < platforms[last.platform].limits.requestsPerMinute
  /\ platforms[last.platform].tokens.burst
       < Scaled(platforms[last.platform].limits.burstLimit)

\* C32: in every refill in which the burst counter is below burstLimit, the
\* counter becomes the smaller of burstLimit and its old value plus
\* elapsedMinutes * burstLimit / 300, where elapsedMinutes is the time since
\* lastRefill.minute as it was when the call began, whether or not the call
\* refills the minute window (in the counter's unit, 1 / BurstScale tokens,
\* the amount is elapsed ms * burstLimit).
C32_BurstRefillAmount ==
  (LastIs("acquireToken") \/ LastIs("getRemainingQuota")) =>
    LET pre     == last.pre
        elapsed == last.at - pre.lastRefill.minute
        limit   == pre.limits.burstLimit
    IN  pre.tokens.burst < Scaled(limit) =>
          last.mid.tokens.burst =
            Min(Scaled(limit), pre.tokens.burst + elapsed * limit)

\* A refill half a minute after the last minute refill, which leaves the
\* minute window alone and adds half a minute's share to the burst counter.
C32_Witness ==
  /\ LastIs("getRemainingQuota")
  /\ last.at - last.pre.lastRefill.minute = 30000
  /\ last.mid.lastRefill.minute = last.pre.lastRefill.minute
  /\ last.mid.tokens.minute = last.pre.tokens.minute
  /\ last.pre.tokens.burst < Scaled(last.pre.limits.burstLimit)
  /\ last.mid.tokens.burst < Scaled(last.pre.limits.burstLimit)
  /\ last.mid.tokens.burst
       = last.pre.tokens.burst + 30000 * last.pre.limits.burstLimit

\* C33: queries do not change what the limiter admits: a getRemainingQuota
\* call that follows another one on the same platform at the same clock
\* instant returns the same three counters.
C33_QueriesChangeNothing ==
  [][(/\ last.op = "getRemainingQuota"
      /\ last'.op = "getRemainingQuota"
      /\ last'.platform = last.platform
      /\ last'.at = last.at)
       => last'.ret = last.ret]_vars

\* C36: getResetTime never reports a reset in the past: whatever time has
\* passed since the platform was last refilled, minutesUntilMinuteReset is
\* 0 or 1 and minutesUntilHourReset is between 0 and 60.
C36_ResetNeverInPast ==
  LastIs("getResetTime") =>
    /\ last.ret.minutesUntilMinuteReset \in {0, 1}
    /\ last.ret.minutesUntilHourReset \in 0..60

---------------------------------------------------------------------------
(* A limiter constructed with overrides: new RateLimiter({ platformLimits }) *)
(* keeps the object it is given, whose entries may name only some of the     *)
(* three limits.                                                             *)

\* Entries of config.platformLimits: one partial, one complete.
ConfigArgs ==
  { [requestsPerMinute |-> 1],
    [requestsPerMinute |-> 2, requestsPerHour |-> 2, burstLimit |-> 2] }

\* The limits read from an object: a field it does not have is undefined.
AsGiven(limits) ==
  [f \in Fields |-> IF f \in DOMAIN limits THEN limits[f] ELSE NaN]

ConfigElapses == {60000}

InitConfig ==
  /\ now = 0
  /\ platforms = EmptyMap
  /\ \/ platformLimits = EmptyMap
     \/ \E limits \in ConfigArgs :
          platformLimits = [p \in Platforms |-> AsGiven(limits)]
  /\ overridden = {}
  /\ logger = NoLogger
  /\ accounts = EmptyMap
  /\ strategy = NoStrategy
  /\ machine = NoMachine
  /\ manager = NoManager
  /\ scheduler = NoScheduler
  /\ engine = NoEngine
  /\ tasks = EmptyMap
  /\ last = NoCall
  /\ grants = Untracked
  /\ emptiedAt = Cleared
  /\ race = EmptyMap
  /\ steps = 0

NextConfig ==
  \/ \E p \in Platforms : AcquireToken(p)
  \/ \E p \in Platforms : ReleaseToken(p)
  \/ \E p \in Platforms : GetRemainingQuota(p)
  \/ \E p \in Platforms, limits \in LimitArgs : SetPlatformLimits(p, limits)
  \/ Reset
  \/ \E d \in ConfigElapses : Advance(d)

SpecConfig == InitConfig /\ [][NextConfig]_vars

\* C34: every platform state created on first reference has its three
\* limits defined as numbers and its three counters equal to those limits,
\* whether the platform's override came from setPlatformLimits or from the
\* constructor's config.platformLimits, complete or partial.  (The state
\* the creating call got from getPlatformState is last.pre, and for
\* getResetTime, which changes nothing in it, the state it leaves.)
C34_NewStateFullAndNumeric ==
  [][\A p \in DOMAIN platforms' \ DOMAIN platforms :
       LET created == IF last'.op = "getResetTime" THEN platforms'[p]
                      ELSE last'.pre
       IN  /\ last'.platform = p
           /\ \A f \in Fields : ~IsNaN(created.limits[f])
           /\ \A w \in Windows : ~IsNaN(created.tokens[w])
           /\ created.tokens = Ceiling(created.limits)]_vars

---------------------------------------------------------------------------
(* The refill arithmetic on its own: SpecRefill starts from a platform that  *)
(* was created at time 0 and has had k tokens acquired at once, lets time    *)
(* pass, and refills.                                                        *)

\* Overrides given to the constructor (config.platformLimits), all complete.
RefillLimits ==
  { defaultLimits,
    MergeLimits([burstLimit |-> 60]),
    MergeLimits([requestsPerMinute |-> 2, requestsPerHour |-> 2,
                 burstLimit |-> 2]) }

RefillElapses == {29999, 30000, 61000, 3600000}

\* The state after k acquireToken calls at time 0, or after as many of them
\* as are admitted.
RECURSIVE AfterAcquires(_, _)
AfterAcquires(state, k) ==
  LET out == AcquireOutcome(RefillTokens(state, 0))
  IN  IF k = 0 \/ ~out.ret THEN state
      ELSE AfterAcquires(out.state, k - 1)

InitRefill ==
  /\ now = 0
  /\ \E limits \in RefillLimits :
       \E k \in {0, 1, Min(limits.requestsPerMinute, limits.burstLimit)} :
         /\ platformLimits = [p \in Platforms |-> limits]
         /\ platforms = [p \in Platforms |->
                           AfterAcquires(NewState(limits, 0), k)]
  /\ overridden = {}
  /\ logger = NoLogger
  /\ accounts = EmptyMap
  /\ strategy = NoStrategy
  /\ machine = NoMachine
  /\ manager = NoManager
  /\ scheduler = NoScheduler
  /\ engine = NoEngine
  /\ tasks = EmptyMap
  /\ last = NoCall
  /\ grants = Untracked
  /\ emptiedAt = Cleared
  /\ race = EmptyMap
  /\ steps = 0

NextRefill ==
  \/ \E d \in RefillElapses : Advance(d)
  \/ \E p \in Platforms : GetRemainingQuota(p)
  \/ \E p \in Platforms : AcquireToken(p)
  \/ GetStats

SpecRefill == InitRefill /\ [][NextRefill]_vars

\* floor(elapsed * limit / window), written out on the quotient and the
\* remainder of elapsed by window.
WholeTokens(elapsed, window, limit) ==
  (elapsed \div window) * limit + (((elapsed % window) * limit) \div window)

\* The minute window (w = "minute") or the hour window of a refill from
\* state pre to state mid at time t.
WindowRefilled(pre, mid, t, w, window, limit) ==
  LET elapsed == t - pre.lastRefill[w]
      sum     == pre.tokens[w] + WholeTokens(elapsed, window, limit)
  IN  IF elapsed < window
      THEN /\ mid.tokens[w] = pre.tokens[w]
           /\ mid.lastRefill[w] = pre.lastRefill[w]
      ELSE /\ mid.tokens[w] = (IF sum <= limit THEN sum ELSE limit)
           /\ mid.lastRefill[w] = t

\* C8: the refill step of a call leaves a window's counter and lastRefill
\* alone when less than a whole window has elapsed since that lastRefill, and
\* otherwise sets the counter to min(limit, counter + floor(elapsedWindows *
\* limit)) and lastRefill to now.  With requestsPerMinute = 60 and the minute
\* counter at 0, 30 s elapsed give 0 and 61 s give 60.
C8_WindowRefill ==
  (LastIs("getRemainingQuota") \/ LastIs("acquireToken")) =>
    LET pre == last.pre
        mid == last.mid
    IN  /\ WindowRefilled(pre, mid, last.at, "minute", MinuteMs,
                          pre.limits.requestsPerMinute)
        /\ WindowRefilled(pre, mid, last.at, "hour", HourMs,
                          pre.limits.requestsPerHour)
        /\ (/\ pre.limits.requestsPerMinute = 60
            /\ pre.tokens.minute = 0
            /\ last.at - pre.lastRefill.minute = 30000)
             => mid.tokens.minute = 0
        /\ (/\ pre.limits.requestsPerMinute = 60
            /\ pre.tokens.minute = 0
            /\ last.at - pre.lastRefill.minute = 61000)
             => mid.tokens.minute = 60

\* 61 s after 60 of 60 minute tokens were taken, a refill restores 60.
C8_Witness ==
  /\ LastIs("getRemainingQuota")
  /\ last.pre.limits.requestsPerMinute = 60
  /\ last.pre.tokens.minute = 0
  /\ last.at - last.pre.lastRefill.minute = 61000
  /\ last.ret.minute = 60
  /\ last.ret.hour < last.pre.limits.requestsPerHour

---------------------------------------------------------------------------
(* Asynchronous callers.  JavaScript runs each piece of code between two     *)
(* awaits to completion, so every action below is one such piece: a call of  *)
(* acquireToken is never interleaved with another task, but tasks interleave *)
(* at each await.                                                            *)

Tasks == {"t1", "t2", "t3"}

\* Overrides given to the constructor (config.platformLimits), all complete.
TaskLimits ==
  { MergeLimits([requestsPerMinute |-> 1, requestsPerHour |-> 1,
                 burstLimit |-> 1]),
    MergeLimits([requestsPerMinute |-> 1]),
    MergeLimits([burstLimit |-> 2]) }

WaitBudgets == {1000, 2000}

\* Task names carry no meaning: a new call always takes the first free one.
IsFreeTask(k) ==
  /\ k \notin DOMAIN tasks
  /\ k = CHOOSE f \in Tasks \ DOMAIN tasks : TRUE

TaskElapses == {1000, 30000}

\* race after an acquireToken on p that found pre, refilled it to mid and
\* returned ret: a run of calls starts afresh whenever the state is created
\* or the refill step changes a counter.
RaceAfterAcquire(p, pre, mid, ret) ==
  LET won == IF ret THEN 1 ELSE 0
  IN  IF p \in DOMAIN platforms /\ p \in DOMAIN race
         /\ mid.tokens = pre.tokens
      THEN [race EXCEPT ![p].wins = @ + won, ![p].calls = @ + 1]
      ELSE MapSet(race, p, [avail |-> mid.tokens, wins |-> won, calls |-> 1])

\* race after a refill of p from pre to mid outside acquireToken.
RaceAfterRefill(p, pre, mid) ==
  IF p \in DOMAIN platforms /\ mid.tokens = pre.tokens THEN race
  ELSE MapSet(race, p, [avail |-> mid.tokens, wins |-> 0, calls |-> 0])

\* The synchronous call this.acquireToken(platform) made by task k, whose
\* result the task then awaits in position pc with the locals given.
TaskAcquires(k, p, pc, locals) ==
  LET pre == GetPlatformState(p)
      mid == RefillTokens(pre, now)
      out == AcquireOutcome(mid)
  IN  /\ platforms' = MapSet(platforms, p, out.state)
      /\ race' = RaceAfterAcquire(p, pre, mid, out.ret)
      /\ last' = [op |-> "acquireToken", platform |-> p, at |-> now,
                  pre |-> pre, mid |-> mid, ret |-> out.ret,
                  streak |-> Streak(p, out.ret)]
      /\ tasks' = MapSet(tasks, k,
                         [kind |-> locals.kind, platform |-> p,
                          startTime |-> locals.startTime,
                          maxWaitMs |-> locals.maxWaitMs,
                          attempts |-> locals.attempts + 1,
                          attemptTimes |-> Append(locals.attemptTimes, now),
                          wins |-> locals.wins + (IF out.ret THEN 1 ELSE 0),
                          pc |-> pc, acquired |-> out.ret,
                          wakeAt |-> 0, ret |-> FALSE, returnedAt |-> now])

\* Mutant: the loop does not look at the deadline.
WaitLoopNoDeadline(k, p, locals) ==
  TaskAcquires(k, p, "awaitAcquire", locals)

\* The head of waitForToken's loop, run by task k with the locals given:
\* while (Date.now() - startTime < maxWaitMs) { await this.acquireToken(..)
WaitLoop(k, p, locals) ==
  IF now - locals.startTime < locals.maxWaitMs
  THEN TaskAcquires(k, p, "awaitAcquire", locals)
  ELSE /\ tasks' = MapSet(tasks, k,
                          [kind |-> locals.kind, platform |-> p,
                           startTime |-> locals.startTime,
                           maxWaitMs |-> locals.maxWaitMs,
                           attempts |-> locals.attempts,
                           attemptTimes |-> locals.attemptTimes,
                           wins |-> locals.wins,
                           pc |-> "returned", acquired |-> FALSE,
                           wakeAt |-> 0, ret |-> FALSE, returnedAt |-> now])
       /\ UNCHANGED <<platforms, race, last>>

\* A task calls waitForToken(platform, maxWaitMs): up to its first await.
WaitForTokenStep(k, p, maxWaitMs) ==
  /\ IsFreeTask(k)
  /\ WaitLoop(k, p, [kind |-> "waitForToken", startTime |-> now,
                     maxWaitMs |-> maxWaitMs, attempts |-> 0,
                     attemptTimes |-> <<>>, wins |-> 0])
  /\ UNCHANGED <<now, platformLimits, overridden, engine, logger, accounts,
                 strategy, machine, manager, scheduler, grants, emptiedAt>>

WaitForToken(k, p, maxWaitMs) ==
  /\ CanStep
  /\ WaitForTokenStep(k, p, maxWaitMs)
  /\ steps' = steps + 1

\* waitForToken resumes with the awaited result: it returns true, or starts
\* the 1000 ms timer and awaits it.
\* Mutant: the retry is not delayed.
WaitResumeStepNoSleep(k) ==
  /\ k \in DOMAIN tasks
  /\ tasks[k].kind = "waitForToken"
  /\ tasks[k].pc = "awaitAcquire"
  /\ tasks' = [tasks EXCEPT ![k] =
                 IF @.acquired
                 THEN [@ EXCEPT !.pc = "returned", !.ret = TRUE,
                                !.returnedAt = now]
                 ELSE [@ EXCEPT !.pc = "sleeping", !.wakeAt = now]]
  /\ UNCHANGED <<now, platforms, platformLimits, overridden, engine, logger,
                 accounts, strategy, machine, manager, scheduler, last, grants,
                 emptiedAt, race>>

WaitResumeStep(k) ==
  /\ k \in DOMAIN tasks
  /\ tasks[k].kind = "waitForToken"
  /\ tasks[k].pc = "awaitAcquire"
  /\ tasks' = [tasks EXCEPT ![k] =
                 IF @.acquired
                 THEN [@ EXCEPT !.pc = "returned", !.ret = TRUE,
                                !.returnedAt = now]
                 ELSE [@ EXCEPT !.pc = "sleeping", !.wakeAt = now + PollMs]]
  /\ UNCHANGED <<now, platforms, platformLimits, overridden, engine, logger,
                 accounts, strategy, machine, manager, scheduler, last, grants,
                 emptiedAt, race>>

WaitResume(k) ==
  /\ CanStep
  /\ WaitResumeStep(k)
  /\ steps' = steps + 1

\* The timer fires, no earlier than 1000 ms after it was set, and the loop
\* goes round.
WaitWakeStep(k) ==
  /\ k \in DOMAIN tasks
  /\ tasks[k].kind = "waitForToken"
  /\ tasks[k].pc = "sleeping"
  /\ now >= tasks[k].wakeAt
  /\ WaitLoop(k, tasks[k].platform, tasks[k])
  /\ UNCHANGED <<now, platformLimits, overridden, engine, logger, accounts,
                 strategy, machine, manager, scheduler, grants, emptiedAt>>

WaitWake(k) ==
  /\ CanStep
  /\ WaitWakeStep(k)
  /\ steps' = steps + 1

\* A task runs ComplianceEngine.checkRateLimit(platform) (the rate-limit
\* stage of checkAction, with a limiter configured): up to its await.
CheckRateLimit(k, p) ==
  /\ CanStep
  /\ IsFreeTask(k)
  /\ TaskAcquires(k, p, "awaitAcquire",
                  [kind |-> "checkRateLimit", startTime |-> now,
                   maxWaitMs |-> 0, attempts |-> 0,
                   attemptTimes |-> <<>>, wins |-> 0])
  /\ steps' = steps + 1
  /\ UNCHANGED <<now, platformLimits, overridden, engine, logger, accounts,
                 strategy, machine, manager, scheduler, grants, emptiedAt>>

\* checkRateLimit resumes: it passes, or it reads getRemainingQuota (which
\* refills) and fails.
CheckRateLimitResume(k) ==
  /\ CanStep
  /\ k \in DOMAIN tasks
  /\ tasks[k].kind = "checkRateLimit"
  /\ tasks[k].pc = "awaitAcquire"
  /\ IF tasks[k].acquired
     THEN /\ tasks' = [tasks EXCEPT ![k].pc = "returned", ![k].ret = TRUE]
          /\ UNCHANGED <<platforms, last, race>>
     ELSE LET p   == tasks[k].platform
              pre == GetPlatformState(p)
              mid == RefillTokens(pre, now)
          IN  /\ platforms' = MapSet(platforms, p, mid)
              /\ race' = RaceAfterRefill(p, pre, mid)
              /\ last' = [op |-> "getRemainingQuota", platform |-> p,
                          at |-> now, pre |-> pre, mid |-> mid,
                          ret |-> mid.tokens, sinceReset |-> SinceReset]
              /\ tasks' = [tasks EXCEPT ![k].pc = "returned",
                                        ![k].ret = FALSE]
  /\ steps' = steps + 1
  /\ UNCHANGED <<now, platformLimits, overridden, engine, logger, accounts,
                 strategy, machine, manager, scheduler, grants, emptiedAt>>

\* A task calls acquireToken itself and awaits the result.
CallAcquireToken(k, p) ==
  /\ CanStep
  /\ IsFreeTask(k)
  /\ TaskAcquires(k, p, "returned",
                  [kind |-> "acquireToken", startTime |-> now,
                   maxWaitMs |-> 0, attempts |-> 0,
                   attemptTimes |-> <<>>, wins |-> 0])
  /\ steps' = steps + 1
  /\ UNCHANGED <<now, platformLimits, overridden, engine, logger, accounts,
                 strategy, machine, manager, scheduler, grants, emptiedAt>>

InitTasks ==
  /\ now = 0
  /\ platforms = EmptyMap
  /\ \E limits \in TaskLimits : platformLimits = [p \in Platforms |-> limits]
  /\ overridden = {}
  /\ logger = NoLogger
  /\ accounts = EmptyMap
  /\ strategy = NoStrategy
  /\ machine = NoMachine
  /\ manager = NoManager
  /\ scheduler = NoScheduler
  /\ engine = NoEngine
  /\ tasks = EmptyMap
  /\ last = NoCall
  /\ grants = Untracked
  /\ emptiedAt = Cleared
  /\ race = EmptyMap
  /\ steps = 0

NextTasks ==
  \/ \E k \in Tasks, p \in Platforms, maxWaitMs \in WaitBudgets :
       WaitForToken(k, p, maxWaitMs)
  \/ \E k \in Tasks : WaitResume(k)
  \/ \E k \in Tasks : WaitWake(k)
  \/ \E k \in Tasks, p \in Platforms : CheckRateLimit(k, p)
  \/ \E k \in Tasks : CheckRateLimitResume(k)
  \/ \E k \in Tasks, p \in Platforms : CallAcquireToken(k, p)
  \/ \E d \in TaskElapses : Advance(d)

SpecTasks == InitTasks /\ [][NextTasks]_vars

\* One whole token, in the unit of each counter.
OneToken == [minute |-> 1, hour |-> 1, burst |-> BurstScale]

\* C5: of the acquireToken calls that concurrent tasks make on a platform
\* (directly, through waitForToken or through checkAction's rate-limit stage)
\* from a moment when some window holds exactly one token, and while no
\* refill changes a counter, at most one returns true, however the tasks
\* interleave.
C5_AtMostOneWinner ==
  \A p \in DOMAIN race :
    (\E w \in Windows : race[p].avail[w] = OneToken[w]) => race[p].wins <= 1

\* Three tasks of the three kinds have raced for the single minute token:
\* one has won, two were refused.
C5_Witness ==
  \E p \in DOMAIN race :
    /\ race[p].avail.minute = 1
    /\ race[p].avail.hour > 1
    /\ race[p].avail.burst > BurstScale
    /\ race[p].wins = 1
    /\ race[p].calls = 3
    /\ DOMAIN tasks = Tasks
    /\ {tasks[k].kind : k \in Tasks} =
         {"waitForToken", "checkRateLimit", "acquireToken"}

\* The waitForToken calls made so far, finished or not.
WaitCalls == {k \in DOMAIN tasks : tasks[k].kind = "waitForToken"}

\* C15: a waitForToken call returns true only if one of its own acquireToken
\* attempts returned true, which is then its last attempt and its only
\* admitted one (one token per window debited); it returns false only when
\* none of its attempts was admitted and at least maxWaitMs have passed since
\* it started; each attempt after the first follows the 1000 ms timer set
\* after the refusal before it, so two consecutive attempts are at least
\* 1000 ms apart.
C15_WaitForTokenOutcome ==
  \A k \in WaitCalls :
    LET t == tasks[k]
        n == Len(t.attemptTimes)
    IN  /\ t.wins <= 1
        /\ t.wins = 1 => t.acquired /\ t.pc \in {"awaitAcquire", "returned"}
        /\ (t.pc = "returned" /\ t.ret) => t.wins = 1
        /\ (t.pc = "returned" /\ ~t.ret) =>
             /\ t.wins = 0
             /\ t.returnedAt - t.startTime >= t.maxWaitMs
        /\ \A i \in 1..(n - 1) :
             t.attemptTimes[i + 1] - t.attemptTimes[i] >= 1000
        /\ t.pc = "sleeping" =>
             /\ t.wakeAt >= t.attemptTimes[n] + 1000
             /\ t.wakeAt <= now + 1000

\* One call has returned true on its first attempt; another, refused, has
\* slept, found its deadline passed and returned false.
C15_Witness ==
  \E k1, k2 \in WaitCalls :
    /\ tasks[k1].pc = "returned" /\ tasks[k1].ret /\ tasks[k1].wins = 1
    /\ tasks[k2].pc = "returned" /\ ~tasks[k2].ret
    /\ tasks[k2].attempts >= 1
    /\ tasks[k2].returnedAt - tasks[k2].startTime >= tasks[k2].maxWaitMs
    /\ tasks[k2].platform = tasks[k1].platform

---------------------------------------------------------------------------
(* waitForToken to its end.  The steps of the waiting calls are not counted  *)
(* in steps, so that every call can run until it returns; the calls that     *)
(* other callers make on the platform meanwhile are.  Timers fire and        *)
(* continuations run once they are due (weak fairness), and the clock moves  *)
(* on as long as a timer is pending.                                         *)

WaitArgs == {0, 1000, 2000}

\* A task calls releaseToken(platform).
CallReleaseToken(k, p) ==
  /\ CanStep
  /\ IsFreeTask(k)
  /\ LET pre  == GetPlatformState(p)
         post == [pre EXCEPT !.tokens = Credit(pre)]
     IN  /\ platforms' = MapSet(platforms, p, post)
         /\ race' = RaceAfterRefill(p, pre, post)
         /\ last' = [op |-> "releaseToken", platform |-> p, at |-> now,
                     pre |-> pre]
  /\ tasks' = MapSet(tasks, k,
                     [kind |-> "releaseToken", platform |-> p,
                      startTime |-> now, maxWaitMs |-> 0, attempts |-> 0,
                      attemptTimes |-> <<>>, wins |-> 0, pc |-> "returned",
                      acquired |-> FALSE, wakeAt |-> 0, ret |-> FALSE,
                      returnedAt |-> now])
  /\ grants' = [grants EXCEPT ![p] = [on |-> FALSE, times |-> <<>>]]
  /\ emptiedAt' = [emptiedAt EXCEPT ![p] = <<>>]
  /\ steps' = steps + 1
  /\ UNCHANGED <<now, platformLimits, overridden, engine, logger, accounts,
                 strategy, machine, manager, scheduler>>

StartWait(k, p, maxWaitMs) ==
  WaitForTokenStep(k, p, maxWaitMs) /\ UNCHANGED steps

ResumeWait(k) == WaitResumeStep(k) /\ UNCHANGED steps

WakeWait(k) == WaitWakeStep(k) /\ UNCHANGED steps

TimerPending ==
  \E k \in WaitCalls : tasks[k].pc = "sleeping" /\ now < tasks[k].wakeAt

\* The clock moves on while a timer is pending.
Tick(d) ==
  /\ TimerPending
  /\ now' = now + d
  /\ UNCHANGED <<platforms, platformLimits, overridden, engine, logger,
                 accounts, strategy, machine, manager, scheduler, tasks, last,
                 grants, emptiedAt, race, steps>>

NextWait ==
  \/ \E k \in Tasks, p \in Platforms, maxWaitMs \in WaitArgs :
       StartWait(k, p, maxWaitMs)
  \/ \E k \in Tasks : ResumeWait(k)
  \/ \E k \in Tasks : WakeWait(k)
  \/ \E k \in Tasks, p \in Platforms : CallAcquireToken(k, p)
  \/ \E k \in Tasks, p \in Platforms : CallReleaseToken(k, p)
  \/ \E d \in TaskElapses : Tick(d)

SpecWait ==
  /\ InitTasks
  /\ [][NextWait]_vars
  /\ WF_vars(\E d \in TaskElapses : Tick(d))
  /\ \A k \in Tasks : WF_vars(ResumeWait(k)) /\ WF_vars(WakeWait(k))

\* C16: every waitForToken call returns, provided the clock advances: it
\* makes at most ceil(maxWaitMs / 1000) attempts, whether any of them is
\* admitted or not and whatever other callers do to the platform meanwhile.
C16_WaitForTokenTerminates ==
  /\ [](\A k \in WaitCalls :
         tasks[k].attempts <= CeilDiv(tasks[k].maxWaitMs, 1000))
  /\ \A k \in Tasks :
       (k \in WaitCalls) ~> (k \in WaitCalls /\ tasks[k].pc = "returned")

\* A call with maxWaitMs = 2000 has made its two attempts, both refused,
\* and has returned false, after another caller took the platform's token.
C16_Witness ==
  \E k \in WaitCalls :
    /\ tasks[k].pc = "returned"
    /\ ~tasks[k].ret
    /\ tasks[k].maxWaitMs = 2000
    /\ tasks[k].attempts = 2
    /\ \E j \in DOMAIN tasks : tasks[j].kind = "acquireToken" /\ tasks[j].acquired

---------------------------------------------------------------------------
(* waitForToken on a platform whose minute window is spent.  The limiter   *)
(* is called by one caller at a time: acquireToken calls and clock         *)
(* advances bring the platform to a state with no minute token left, then  *)
(* waitForToken is called with time enough to see the minute window        *)
(* refill, and nothing else calls the limiter until it has returned.  The  *)
(* 1000 ms timer fires on time.                                            *)

\* Limits set for the platform before the first call.
SpentLimits ==
  { MergeLimits([requestsPerMinute |-> 1, requestsPerHour |-> 2,
                 burstLimit |-> 2]),
    MergeLimits([requestsPerMinute |-> 2, burstLimit |-> 1]) }

SpentElapses == {30000, 59000}

SpentWaitBudgets == {1001, 2001, 31001, 61001}

\* No waitForToken call is in progress.
NoneWaiting == \A k \in WaitCalls : tasks[k].pc = "returned"

\* The time left until the minute window of a state refills.
MinuteRemaining(state) ==
  IF state.lastRefill.minute + MinuteMs > now
  THEN state.lastRefill.minute + MinuteMs - now
  ELSE 0

\* waitForToken(platform, maxWaitMs), called when the minute counter is 0
\* and the hour counter is positive, with maxWaitMs beyond the time left
\* until the minute window refills plus one polling delay.
WaitForMinute(k, p, maxWaitMs) ==
  /\ NoneWaiting
  /\ p \in DOMAIN platforms
  /\ platforms[p].tokens.minute = 0
  /\ platforms[p].tokens.hour > 0
  /\ maxWaitMs > MinuteRemaining(platforms[p]) + PollMs
  /\ StartWait(k, p, maxWaitMs)

\* acquireToken(platform) by the one caller, while nothing waits.
AcquireAlone(p) ==
  /\ NoneWaiting
  /\ AcquireToken(p)
  /\ UNCHANGED <<tasks, race>>

\* Time passes between the caller's calls.
AdvanceAlone(d) ==
  /\ NoneWaiting
  /\ Advance(d)
  /\ UNCHANGED <<tasks, last>>

\* The clock reaches the instant the pending timer is due.
TimerDue ==
  /\ TimerPending
  /\ Tick(PollMs)
  /\ UNCHANGED <<tasks, last>>

InitSpent ==
  /\ now = 0
  /\ platforms = EmptyMap
  /\ \E limits \in SpentLimits : platformLimits = [p \in Platforms |-> limits]
  /\ overridden = Platforms
  /\ logger = NoLogger
  /\ accounts = EmptyMap
  /\ strategy = NoStrategy
  /\ machine = NoMachine
  /\ manager = NoManager
  /\ scheduler = NoScheduler
  /\ engine = NoEngine
  /\ tasks = EmptyMap
  /\ last = NoCall
  /\ grants = Untracked
  /\ emptiedAt = Cleared
  /\ race = EmptyMap
  /\ steps = 0

NextSpent ==
  \/ \E p \in Platforms : AcquireAlone(p)
  \/ \E d \in SpentElapses : AdvanceAlone(d)
  \/ \E k \in Tasks, p \in Platforms, maxWaitMs \in SpentWaitBudgets :
       WaitForMinute(k, p, maxWaitMs)
  \/ \E k \in Tasks : ResumeWait(k)
  \/ \E k \in Tasks : WakeWait(k)
  \/ TimerDue

SpecSpent ==
  /\ InitSpent
  /\ [][NextSpent]_vars
  /\ WF_vars(TimerDue)
  /\ \A k \in Tasks : WF_vars(ResumeWait(k)) /\ WF_vars(WakeWait(k))

\* C35: a waitForToken call made on a platform whose minute counter is 0
\* and whose hour counter is positive, with maxWaitMs greater than the time
\* left until the minute window refills plus 1000 ms, and with no other
\* caller acquiring from the platform meanwhile, eventually returns true.
C35_WaitSeesMinuteRefill ==
  \A k \in Tasks :
    (k \in WaitCalls) ~>
      (k \in WaitCalls /\ tasks[k].pc = "returned" /\ tasks[k].ret)

---------------------------------------------------------------------------
(* Two platform keys on one limiter *)

KeyPlatforms == {"p", "q"}

KeyLimitArgs == { [burstLimit |-> 2] }

KeyElapses == {1000}

KeyWaitBudgets == {2000}

\* The limiter was constructed with an override for platform "p", and the
\* one token that override allows has been taken by a first call.
InitKeys ==
  /\ now = 0
  /\ LET limits == MergeLimits([requestsPerMinute |-> 1,
                                requestsPerHour |-> 1, burstLimit |-> 1])
     IN  /\ platformLimits = [p \in {"p"} |-> limits]
         /\ platforms = [p \in {"p"} |-> AfterAcquires(NewState(limits, 0), 1)]
  /\ overridden = {}
  /\ logger = NoLogger
  /\ accounts = EmptyMap
  /\ strategy = NoStrategy
  /\ machine = NoMachine
  /\ manager = NoManager
  /\ scheduler = NoScheduler
  /\ engine = NoEngine
  /\ tasks = EmptyMap
  /\ last = NoCall
  /\ grants = [p \in KeyPlatforms |-> [on |-> FALSE, times |-> <<>>]]
  /\ emptiedAt = [p \in KeyPlatforms |-> <<>>]
  /\ race = EmptyMap
  /\ steps = 0

NextKeys ==
  \/ \E p \in KeyPlatforms : AcquireToken(p)
  \/ \E p \in KeyPlatforms : ReleaseToken(p)
  \/ \E p \in KeyPlatforms : GetRemainingQuota(p)
  \/ \E p \in KeyPlatforms : GetResetTime(p)
  \/ \E p \in KeyPlatforms, limits \in KeyLimitArgs :
       SetPlatformLimits(p, limits)
  \/ \E k \in Tasks, p \in KeyPlatforms, maxWaitMs \in KeyWaitBudgets :
       WaitForToken(k, p, maxWaitMs)
  \/ \E k \in Tasks : WaitResume(k)
  \/ \E k \in Tasks : WaitWake(k)
  \/ \E d \in KeyElapses : Advance(d)

SpecKeys == InitKeys /\ [][NextKeys]_vars

\* A step of one of the six operations applied to platform p: a direct call
\* (told by the record it leaves in last), or a step of a waitForToken call
\* on p (told by the change of that call's task).
StepOn(p) ==
  \/ /\ tasks' = tasks
     /\ \/ last'.op = "acquireToken" /\ AcquireToken(p)
        \/ last'.op = "releaseToken" /\ ReleaseToken(p)
        \/ last'.op = "getRemainingQuota" /\ GetRemainingQuota(p)
        \/ last'.op = "getResetTime" /\ GetResetTime(p)
        \/ /\ last'.op = "setPlatformLimits"
           /\ \E limits \in KeyLimitArgs : SetPlatformLimits(p, limits)
  \/ \E k \in DOMAIN tasks' :
       /\ tasks'[k].kind = "waitForToken"
       /\ tasks'[k].platform = p
       /\ k \in DOMAIN tasks => tasks'[k] # tasks[k]

\* Everything the limiter holds for platform q is left as it is.
KeyUntouched(q) ==
  /\ (q \in DOMAIN platforms') = (q \in DOMAIN platforms)
  /\ q \in DOMAIN platforms => platforms'[q] = platforms[q]
  /\ (q \in DOMAIN platformLimits') = (q \in DOMAIN platformLimits)
  /\ q \in DOMAIN platformLimits => platformLimits'[q] = platformLimits[q]

\* C14: a step of acquireToken, releaseToken, getRemainingQuota,
\* getResetTime, waitForToken or setPlatformLimits on platform p leaves the
\* limits, the counters and the lastRefill timestamps of every other
\* platform q as they are.
C14_PlatformsIndependent ==
  [][\A p \in KeyPlatforms :
       StepOn(p) => \A q \in KeyPlatforms \ {p} : KeyUntouched(q)]_vars

\* A call has just changed the state of one platform while the other holds
\* a state of its own, with other limits and with tokens taken.
C14_Witness ==
  /\ LastIs("acquireToken")
  /\ last.ret
  /\ DOMAIN platforms = KeyPlatforms
  /\ \E q \in KeyPlatforms \ {last.platform} :
       /\ platforms[q].limits # platforms[last.platform].limits
       /\ platforms[q].tokens.minute < platforms[q].limits.requestsPerMinute
       /\ platforms[q].lastRefill # platforms[last.platform].lastRefill

---------------------------------------------------------------------------
(* ComplianceEngine (src/src/core/logger.js lines 233-505).  A checkAction   *)
(* call is an asynchronous task: with a platform and a limiter it awaits     *)
(* checkRateLimit, which awaits acquireToken, so it runs in three pieces;    *)
(* otherwise it runs in one.                                                 *)

\* loadRules().platforms: for each known platform the flags that are set.
PlatformRules ==
  [github |-> {"requiresUserAgent", "noAutomatedAccounts", "rateLimit"},
   fiverr |-> {"oneAccountPerPerson", "noAutomatedCommunication",
               "deliverAsDescribed"},
   upwork |-> {"realIndividualsOnly", "noAutomatedBidding",
               "personalCommunication"}]

\* An action object of the given type with none of the optional flags set.
Plain(type) ==
  [type |-> type, fraudulent |-> FALSE, userConsent |-> FALSE,
   personalResponse |-> FALSE, automated |-> FALSE, affiliate |-> FALSE,
   sponsored |-> FALSE, hasDisclosure |-> FALSE]

\* The actions proposed to checkAction.
ComplianceActions ==
  { Plain("api-call"),
    [Plain("unauthorized-access") EXCEPT !.affiliate = TRUE],
    Plain("send-message"),
    Plain("post-affiliate-link"),
    [Plain("api-call") EXCEPT !.sponsored = TRUE, !.hasDisclosure = TRUE] }

\* The context objects: {} and { platform }.
ComplianceContexts ==
  { EmptyMap, [platform |-> "fiverr"], [platform |-> "p"] }

\* if (context.platform)
HasPlatform(context) == "platform" \in DOMAIN context

\* Mutant: one passing check is enough.
RECURSIVE Some(_)
Some(checks) ==
  IF checks = <<>> THEN FALSE
  ELSE Head(checks).passed \/ Some(Tail(checks))

\* checks.every((check) => check.passed)
RECURSIVE Every(_)
Every(checks) ==
  IF checks = <<>> THEN TRUE
  ELSE Head(checks).passed /\ Every(Tail(checks))

\* Mutant: spam is a violation whether the user consented or not.
CheckLegalNoConsent(action) ==
  LET v1 == IF action.type = "unauthorized-access"
            THEN <<"Unauthorized access is illegal">> ELSE <<>>
      v2 == IF action.type = "fraud" \/ action.fraudulent
            THEN <<"Fraudulent activity is illegal">> ELSE <<>>
      v3 == IF action.type = "spam"
            THEN <<"Spam without consent violates anti-spam laws">>
            ELSE <<>>
      violations == v1 \o v2 \o v3
  IN  [category |-> "legal", passed |-> violations = <<>>,
       violations |-> violations]

\* checkLegal(action)
CheckLegal(action) ==
  LET v1 == IF action.type = "unauthorized-access"
            THEN <<"Unauthorized access is illegal">> ELSE <<>>
      v2 == IF action.type = "fraud" \/ action.fraudulent
            THEN <<"Fraudulent activity is illegal">> ELSE <<>>
      v3 == IF action.type = "spam" /\ ~action.userConsent
            THEN <<"Spam without consent violates anti-spam laws">>
            ELSE <<>>
      violations == v1 \o v2 \o v3
  IN  [category |-> "legal", passed |-> violations = <<>>,
       violations |-> violations]

\* Mutant: every known platform forbids automated messages.
RulesForAllStrict(platform) ==
  IF platform \in DOMAIN PlatformRules
  THEN <<PlatformRules[platform] \cup {"noAutomatedCommunication"}>>
  ELSE IF platform \in ObjectPrototypeKeys THEN <<{}>>
  ELSE <<>>

\* this.rules.platforms[platform]: <<the flags set>> for a known platform,
\* <<{}>> for a name inherited from Object.prototype (a function, truthy,
\* with none of the flags), and <<>> (undefined) for any other name.
RulesFor(platform) ==
  IF platform \in DOMAIN PlatformRules THEN <<PlatformRules[platform]>>
  ELSE IF platform \in ObjectPrototypeKeys THEN <<{}>>
  ELSE <<>>

\* checkPlatformRules(platform, action)
CheckPlatformRules(platform, action) ==
  IF RulesFor(platform) = <<>>
  THEN [category |-> "platform", passed |-> TRUE, violations |-> <<>>,
        note |-> "No specific rules loaded"]
  ELSE LET rules == RulesFor(platform)[1]
           v1 == IF /\ "noAutomatedCommunication" \in rules
                    /\ action.type = "send-message"
                    /\ ~action.personalResponse
                 THEN <<"requires personal communication, not automated">>
                 ELSE <<>>
           v2 == IF /\ "noAutomatedBidding" \in rules
                    /\ action.type = "submit-proposal"
                    /\ action.automated
                 THEN <<"does not allow automated bidding">> ELSE <<>>
           violations == v1 \o v2
       IN  [category |-> "platform", platform |-> platform,
            passed |-> violations = <<>>, violations |-> violations]

\* Mutant: only the action's type decides whether a disclosure is required.
RequiresDisclosureByType(action) ==
  \/ action.type = "post-affiliate-link"
  \/ action.type = "sponsored-content"

\* requiresDisclosure(action)
RequiresDisclosure(action) ==
  \/ action.type = "post-affiliate-link"
  \/ action.type = "sponsored-content"
  \/ action.affiliate
  \/ action.sponsored

\* checkDisclosure(action)
CheckDisclosure(action) ==
  LET violations == IF RequiresDisclosure(action) /\ ~action.hasDisclosure
                    THEN <<"Required disclosure missing">> ELSE <<>>
  IN  [category |-> "disclosure", passed |-> violations = <<>>,
       violations |-> violations]

\* Stage 1 and stage 2 of checkAction.
LegalAndPlatformChecks(action, context) ==
  IF HasPlatform(context)
  THEN <<CheckLegal(action), CheckPlatformRules(context.platform, action)>>
  ELSE <<CheckLegal(action)>>

\* Mutant: the disclosure stage is skipped once a check has failed.
WithDisclosureCheckUnlessFailed(checks, action) ==
  IF RequiresDisclosure(action) /\ Every(checks)
  THEN Append(checks, CheckDisclosure(action))
  ELSE checks

\* Stage 4 of checkAction, after the checks made so far.
WithDisclosureCheck(checks, action) ==
  IF RequiresDisclosure(action)
  THEN Append(checks, CheckDisclosure(action))
  ELSE checks

\* The ComplianceResult checkAction builds from its checks.
ComplianceResult(checks, action) ==
  [passed |-> Every(checks), checks |-> checks, action |-> action.type,
   timestamp |-> now]

\* The locals of a checkAction call as it starts; caller is "execute" when
\* the strategy's execute makes the call, and "" otherwise.
NewCheckCall(caller, action, context) ==
  [kind |-> "checkAction", caller |-> caller,
   platform |-> IF HasPlatform(context) THEN context.platform ELSE "",
   action |-> action, context |-> context, calledAt |-> now,
   checks |-> <<>>, pc |-> "running", acquired |-> FALSE, mid |-> <<>>,
   debited |-> <<>>,
   rateLimitCheck |-> <<>>, result |-> <<>>, error |-> <<>>]

\* new ComplianceError('Action violates compliance rules', details)
ComplianceError(details) ==
  [name |-> "ComplianceError", details |-> details]

\* Mutant: in strict mode the error is thrown before the failure is recorded.
ConcludeThrowingFirst(k, t, checks) ==
  LET result == ComplianceResult(checks, t.action)
      throws == ~result.passed /\ engine.strictMode
  IN  /\ engine' = IF result.passed \/ throws THEN engine
                   ELSE [engine EXCEPT !.violations = Append(@, result)]
      /\ tasks' = MapSet(tasks, k,
                         [t EXCEPT !.checks = checks, !.result = <<result>>,
                                   !.error = IF throws
                                             THEN <<ComplianceError(result)>>
                                             ELSE <<>>,
                                   !.pc = IF throws THEN "thrown"
                                          ELSE "returned"])

\* The end of checkAction, run by task k with locals t and all its checks:
\* the result is built, a failure is recorded in this.violations, and the
\* call throws ComplianceError (strict mode, failure) or returns the result.
Conclude(k, t, checks) ==
  LET result == ComplianceResult(checks, t.action)
      throws == ~result.passed /\ engine.strictMode
  IN  /\ engine' = IF result.passed THEN engine
                   ELSE [engine EXCEPT !.violations = Append(@, result)]
      /\ tasks' = MapSet(tasks, k,
                         [t EXCEPT !.checks = checks, !.result = <<result>>,
                                   !.error = IF throws
                                             THEN <<ComplianceError(result)>>
                                             ELSE <<>>,
                                   !.pc = IF throws THEN "thrown"
                                          ELSE "returned"])

\* A task calls checkAction(action, context) for the given caller: up to its
\* first await, or to its end when the rate-limit stage does not apply.  The
\* call leaves the caller's own state to the caller.
CheckActionFor(caller, k, action, context) ==
  /\ CanStep
  /\ IsFreeTask(k)
  /\ LET t      == NewCheckCall(caller, action, context)
         checks == LegalAndPlatformChecks(action, context)
     IN  IF HasPlatform(context) /\ engine.rateLimiter
         THEN LET p   == context.platform
                  pre == GetPlatformState(p)
                  mid == RefillTokens(pre, now)
                  out == AcquireOutcome(mid)
              IN  /\ platforms' = MapSet(platforms, p, out.state)
                  /\ race' = RaceAfterAcquire(p, pre, mid, out.ret)
                  /\ last' = [op |-> "acquireToken", platform |-> p,
                              at |-> now, pre |-> pre, mid |-> mid,
                              ret |-> out.ret, streak |-> <<>>]
                  /\ tasks' = MapSet(tasks, k,
                                     [t EXCEPT !.checks = checks,
                                               !.pc = "awaitAcquire",
                                               !.acquired = out.ret,
                                               !.mid = <<mid.tokens>>,
                                               !.debited = <<out.state.tokens>>])
                  /\ UNCHANGED engine
         ELSE /\ Conclude(k, t, WithDisclosureCheck(checks, action))
              /\ UNCHANGED <<platforms, race, last>>
  /\ steps' = steps + 1
  /\ UNCHANGED <<now, platformLimits, overridden, logger, accounts, machine,
                 manager, scheduler, grants, emptiedAt>>

\* A task calls checkAction(action, context) directly.
CheckAction(k, action, context) ==
  /\ CheckActionFor("", k, action, context)
  /\ UNCHANGED strategy

\* Mutant: the rate-limit check passes whatever acquireToken returned.
CheckActionRateLimitLax(k) ==
  /\ CanStep
  /\ k \in DOMAIN tasks
  /\ tasks[k].kind = "checkAction"
  /\ tasks[k].pc = "awaitAcquire"
  /\ tasks' = [tasks EXCEPT
                ![k].pc = "awaitRateLimit",
                ![k].rateLimitCheck =
                  <<[category |-> "rateLimit", passed |-> TRUE]>>]
  /\ steps' = steps + 1
  /\ UNCHANGED <<now, platforms, platformLimits, overridden, engine, logger,
                 accounts, strategy, machine, manager, scheduler, last, grants,
                 emptiedAt, race>>

\* checkRateLimit resumes with the result of acquireToken and builds its
\* check; after a refusal it reads getRemainingQuota, which refills.
CheckActionRateLimit(k) ==
  /\ CanStep
  /\ k \in DOMAIN tasks
  /\ tasks[k].kind = "checkAction"
  /\ tasks[k].pc = "awaitAcquire"
  /\ IF tasks[k].acquired
     THEN /\ tasks' = [tasks EXCEPT
                        ![k].pc = "awaitRateLimit",
                        ![k].rateLimitCheck =
                          <<[category |-> "rateLimit", passed |-> TRUE]>>]
          /\ UNCHANGED <<platforms, race, last>>
     ELSE LET p   == tasks[k].platform
              pre == GetPlatformState(p)
              mid == RefillTokens(pre, now)
          IN  /\ platforms' = MapSet(platforms, p, mid)
              /\ race' = RaceAfterRefill(p, pre, mid)
              /\ last' = [op |-> "getRemainingQuota", platform |-> p,
                          at |-> now, pre |-> pre, mid |-> mid,
                          ret |-> mid.tokens, sinceReset |-> SinceReset]
              /\ tasks' = [tasks EXCEPT
                            ![k].pc = "awaitRateLimit",
                            ![k].rateLimitCheck =
                              <<[category |-> "rateLimit", passed |-> FALSE,
                                 violations |-> <<"Rate limit exceeded">>,
                                 remaining |-> mid.tokens]>>]
  /\ steps' = steps + 1
  /\ UNCHANGED <<now, platformLimits, overridden, engine, logger, accounts,
                 strategy, machine, manager, scheduler, grants, emptiedAt>>

\* Mutant: a call that fails gives the token it took back to the limiter.
CheckActionFinishRefunding(k) ==
  /\ CanStep
  /\ k \in DOMAIN tasks
  /\ tasks[k].kind = "checkAction"
  /\ tasks[k].pc = "awaitRateLimit"
  /\ Conclude(k, tasks[k],
              WithDisclosureCheck(Append(tasks[k].checks,
                                         tasks[k].rateLimitCheck[1]),
                                  tasks[k].action))
  /\ platforms' =
       IF tasks[k].acquired /\ tasks'[k].pc = "thrown"
       THEN [platforms EXCEPT ![tasks[k].platform].tokens =
               Credit(platforms[tasks[k].platform])]
       ELSE platforms
  /\ steps' = steps + 1
  /\ UNCHANGED <<now, platformLimits, overridden, logger, accounts, strategy,
                 machine, manager, scheduler, last, grants, emptiedAt, race>>

\* checkAction resumes with the rate-limit check and runs to its end.
CheckActionFinish(k) ==
  /\ CanStep
  /\ k \in DOMAIN tasks
  /\ tasks[k].kind = "checkAction"
  /\ tasks[k].pc = "awaitRateLimit"
  /\ Conclude(k, tasks[k],
              WithDisclosureCheck(Append(tasks[k].checks,
                                         tasks[k].rateLimitCheck[1]),
                                  tasks[k].action))
  /\ steps' = steps + 1
  /\ UNCHANGED <<now, platforms, platformLimits, overridden, logger, accounts,
                 strategy, machine, manager, scheduler, last, grants,
                 emptiedAt, race>>

\* The config objects given to the engine's constructor: {}, and
\* { strictMode } with the value false or true.
EngineConfigs ==
  { EmptyMap, [strictMode |-> "false"], [strictMode |-> "true"] }

\* Mutant: the engine is strict only when config.strictMode is given as true.
NewEngineStrictWhenAsked(config, rateLimiter) ==
  [strictMode  |-> "strictMode" \in DOMAIN config /\ config.strictMode = "true",
   rateLimiter |-> rateLimiter,
   violations  |-> <<>>,
   config      |-> config]

\* new ComplianceEngine(config, logger, rateLimiter): strictMode is
\* config.strictMode !== false; rateLimiter tells whether a limiter is given.
NewEngine(config, rateLimiter) ==
  [strictMode  |-> ~("strictMode" \in DOMAIN config
                      /\ config.strictMode = "false"),
   rateLimiter |-> rateLimiter,
   violations  |-> <<>>,
   config      |-> config]

\* The engines: strict (the default) or lenient, with or without a limiter.
Engines ==
  { NewEngine(config, r) : config \in EngineConfigs, r \in BOOLEAN }

\* new ComplianceEngine(config, logger, rateLimiter) on a limiter given the
\* override { 1, 1, 1 } for the platforms of the contexts.
InitCompliance ==
  /\ now = 0
  /\ platforms = EmptyMap
  /\ platformLimits =
       [p \in {"fiverr", "p"} |->
          MergeLimits([requestsPerMinute |-> 1, requestsPerHour |-> 1,
                       burstLimit |-> 1])]
  /\ overridden = {}
  /\ logger = NoLogger
  /\ accounts = EmptyMap
  /\ strategy = NoStrategy
  /\ machine = NoMachine
  /\ manager = NoManager
  /\ scheduler = NoScheduler
  /\ engine \in Engines
  /\ tasks = EmptyMap
  /\ last = NoCall
  /\ grants = Untracked
  /\ emptiedAt = Cleared
  /\ race = EmptyMap
  /\ steps = 0

NextCompliance ==
  \/ \E k \in Tasks, action \in ComplianceActions,
        context \in ComplianceContexts : CheckAction(k, action, context)
  \/ \E k \in Tasks : CheckActionRateLimit(k)
  \/ \E k \in Tasks : CheckActionFinish(k)

SpecCompliance == InitCompliance /\ [][NextCompliance]_vars

\* The checkAction calls that have ended, by return or by throw.
EndedChecks ==
  {k \in DOMAIN tasks :
     tasks[k].kind = "checkAction" /\ tasks[k].pc \in {"returned", "thrown"}}

\* The categories of a list of checks, in the order of the list.
Categories(checks) == [i \in 1..Len(checks) |-> checks[i].category]

\* The preconditions of the stages, as C18 and C19 state them.
StageApplies(stage, action, context, limiter) ==
  CASE stage = "legal" -> TRUE
    [] stage = "platform" -> "platform" \in DOMAIN context
    [] stage = "rateLimit" -> "platform" \in DOMAIN context /\ limiter
    [] stage = "disclosure" ->
         \/ action.type \in {"post-affiliate-link", "sponsored-content"}
         \/ action.affiliate
         \/ action.sponsored

\* C18: the passed flag of the result of checkAction is the conjunction of
\* the passed flags of the checks in its list; the list has an entry for a
\* stage exactly when the precondition of the stage holds (no platform check
\* without context.platform, no rate-limit check without platform or without
\* limiter, no disclosure check when none is required).
C18_PassedIsConjunction ==
  \A k \in EndedChecks :
    LET t == tasks[k]
        r == t.result[1]
        n == Len(r.checks)
    IN  /\ r.passed = (\A i \in 1..n : r.checks[i].passed)
        /\ \A stage \in {"legal", "platform", "rateLimit", "disclosure"} :
             (\E i \in 1..n : r.checks[i].category = stage)
               = StageApplies(stage, t.action, t.context, engine.rateLimiter)
        /\ \A i, j \in 1..n :
             r.checks[i].category = r.checks[j].category => i = j

\* One call has ended with the legal check alone, and passed; another has
\* ended with four checks of which only the last failed, and failed.
C18_Witness ==
  \E k1, k2 \in EndedChecks :
    /\ Len(tasks[k1].result[1].checks) = 1
    /\ tasks[k1].result[1].passed
    /\ Len(tasks[k2].result[1].checks) = 4
    /\ \A i \in 1..3 : tasks[k2].result[1].checks[i].passed
    /\ ~tasks[k2].result[1].checks[4].passed
    /\ ~tasks[k2].result[1].passed

\* C19: the checks of a result are those of the stages whose precondition
\* holds, in the order legal, platform, rateLimit, disclosure, whether an
\* earlier stage failed or not, in strict and in lenient mode.
C19_StagesInOrderNoShortCircuit ==
  \A k \in EndedChecks :
    LET t == tasks[k]
        Applies(stage) ==
          StageApplies(stage, t.action, t.context, engine.rateLimiter)
    IN  Categories(t.result[1].checks)
          = SelectSeq(<<"legal", "platform", "rateLimit", "disclosure">>,
                      Applies)

\* In strict mode a call whose legal check failed has run the three other
\* stages all the same, and has thrown.
C19_Witness ==
  \E k \in EndedChecks :
    /\ engine.strictMode
    /\ tasks[k].pc = "thrown"
    /\ Categories(tasks[k].result[1].checks)
         = <<"legal", "platform", "rateLimit", "disclosure">>
    /\ ~tasks[k].result[1].checks[1].passed

\* C20: the token a checkAction call takes is never given back: when its
\* acquireToken admits, the three counters are left one token below their
\* refilled values, and no later step of the call changes a platform state,
\* whether another stage fails or not and whether the call throws or not.
C20_TokenNotRefunded ==
  /\ [](\A k \in DOMAIN tasks :
          (tasks[k].kind = "checkAction" /\ tasks[k].acquired) =>
            /\ tasks[k].debited[1].minute = tasks[k].mid[1].minute - 1
            /\ tasks[k].debited[1].hour = tasks[k].mid[1].hour - 1
            /\ tasks[k].debited[1].burst = tasks[k].mid[1].burst - BurstScale)
  /\ [][\A k \in DOMAIN tasks :
          (/\ tasks[k].kind = "checkAction"
           /\ tasks[k].acquired
           /\ tasks'[k] # tasks[k]) => platforms' = platforms]_vars

\* In strict mode a call has taken the platform's token, has failed on
\* another stage and has thrown; the counters are as its acquireToken left
\* them.
C20_Witness ==
  \E k \in EndedChecks :
    /\ tasks[k].pc = "thrown"
    /\ tasks[k].acquired
    /\ tasks[k].result[1].checks[3].category = "rateLimit"
    /\ tasks[k].result[1].checks[3].passed
    /\ platforms[tasks[k].platform].tokens = tasks[k].debited[1]
    /\ tasks[k].debited[1].minute = 0

\* C21: checkAction throws ComplianceError exactly when the engine was
\* constructed with a config whose strictMode is not false and the aggregate
\* of the call failed; the error's details are the full result, with the
\* checks of every applicable stage, and no call throws before its last
\* stage.  An engine constructed with strictMode false never throws and
\* returns the failed result.
C21_ThrowsIffStrictAndFailed ==
  \A k \in DOMAIN tasks :
    tasks[k].kind = "checkAction" =>
      LET t == tasks[k]
          strict == ~("strictMode" \in DOMAIN engine.config
                       /\ engine.config.strictMode = "false")
          Applies(stage) ==
            StageApplies(stage, t.action, t.context, engine.rateLimiter)
      IN  /\ t.pc \notin {"returned", "thrown"} => t.error = <<>>
          /\ t.pc \in {"returned", "thrown"} =>
                /\ (t.pc = "thrown") = (strict /\ ~t.result[1].passed)
                /\ (t.pc = "thrown") = (t.error # <<>>)
                /\ t.pc = "thrown" =>
                      /\ t.error[1].name = "ComplianceError"
                      /\ t.error[1].details = t.result[1]
                      /\ Categories(t.error[1].details.checks)
                           = SelectSeq(<<"legal", "platform", "rateLimit",
                                         "disclosure">>, Applies)
                /\ (~strict /\ ~Every(t.result[1].checks)) =>
                      /\ t.pc = "returned"
                      /\ ~t.result[1].passed

\* An engine constructed without a strictMode has thrown on a call that
\* failed after its rate-limit stage had run.
C21_Witness ==
  /\ engine.config = EmptyMap
  /\ \E k \in EndedChecks :
       /\ tasks[k].pc = "thrown"
       /\ Len(tasks[k].error[1].details.checks) >= 3
       /\ ~tasks[k].error[1].details.passed

---------------------------------------------------------------------------
(* The violations log: checkAction, generateComplianceReport and           *)
(* clearViolations (lines 289-337 and 490-503).                            *)

ViolationActions == { Plain("api-call"), Plain("unauthorized-access") }

ViolationContexts == { EmptyMap, [platform |-> "p"] }

\* A caller (task k) calls generateComplianceReport().
GenerateComplianceReport(k) ==
  /\ CanStep
  /\ IsFreeTask(k)
  /\ tasks' = MapSet(tasks, k,
                     [kind |-> "generateComplianceReport",
                      pc   |-> "returned",
                      ret  |-> [totalViolations |-> Len(engine.violations),
                                violations      |-> engine.violations]])
  /\ steps' = steps + 1
  /\ UNCHANGED <<now, platforms, platformLimits, overridden, engine, logger,
                 accounts, strategy, machine, manager, scheduler, last, grants,
                 emptiedAt, race>>

\* A caller (task k) calls clearViolations().  The task keeps, as history,
\* the checkAction calls that had ended before it.
ClearViolations(k) ==
  /\ CanStep
  /\ IsFreeTask(k)
  /\ engine' = [engine EXCEPT !.violations = <<>>]
  /\ tasks' = MapSet(tasks, k,
                     [kind |-> "clearViolations", pc |-> "returned",
                      before |-> EndedChecks])
  /\ steps' = steps + 1
  /\ UNCHANGED <<now, platforms, platformLimits, overridden, logger, accounts,
                 strategy, machine, manager, scheduler, last, grants,
                 emptiedAt, race>>

NextViolations ==
  \/ \E k \in Tasks, action \in ViolationActions,
        context \in ViolationContexts : CheckAction(k, action, context)
  \/ \E k \in Tasks : CheckActionRateLimit(k)
  \/ \E k \in Tasks : CheckActionFinish(k)
  \/ \E k \in Tasks : GenerateComplianceReport(k)
  \/ \E k \in Tasks : ClearViolations(k)

SpecViolations == InitCompliance /\ [][NextViolations]_vars

\* The checkAction calls that ended before some clearViolations.
EndedBeforeClear ==
  UNION { tasks[c].before :
            c \in {k \in DOMAIN tasks : tasks[k].kind = "clearViolations"} }

\* The failed checkAction calls that have ended since construction or the
\* last clearViolations.
FailedSinceClear ==
  {k \in EndedChecks : ~Every(tasks[k].result[1].checks)} \ EndedBeforeClear

\* C22: between clears the violations log only grows at its end: a step
\* that ends a checkAction call whose aggregate failed appends the call's
\* result and nothing else, by throw and by return alike; a call that
\* passes, a piece of a call that has not ended and a report leave the log
\* as it is; only clearViolations empties it.  So the log holds exactly the
\* results of the failed calls ended since construction or the last clear,
\* and a report's totalViolations is their number.
C22_ViolationsAppendOnly ==
  /\ [](/\ Len(engine.violations) = Cardinality(FailedSinceClear)
        /\ {engine.violations[i] : i \in 1..Len(engine.violations)}
             = {tasks[k].result[1] : k \in FailedSinceClear})
  /\ [][\E k \in DOMAIN tasks' :
          /\ \A j \in DOMAIN tasks' \ {k} :
               j \in DOMAIN tasks /\ tasks'[j] = tasks[j]
          /\ CASE tasks'[k].kind = "clearViolations" ->
                     engine'.violations = <<>>
                [] tasks'[k].kind = "generateComplianceReport" ->
                     /\ engine'.violations = engine.violations
                     /\ tasks'[k].ret.violations = engine.violations
                     /\ tasks'[k].ret.totalViolations
                          = Cardinality(FailedSinceClear)
                [] tasks'[k].kind = "checkAction" ->
                     IF /\ tasks'[k].pc \in {"returned", "thrown"}
                        /\ ~Every(tasks'[k].result[1].checks)
                     THEN engine'.violations
                            = Append(engine.violations, tasks'[k].result[1])
                     ELSE engine'.violations = engine.violations]_vars

\* After a clear, a strict engine has thrown on one failed call, which is
\* the one record of the log; a call that failed before the clear is no
\* longer in it.
C22_Witness ==
  /\ engine.strictMode
  /\ Len(engine.violations) = 1
  /\ EndedBeforeClear \cap {k \in EndedChecks : ~tasks[k].result[1].passed}
       # {}
  /\ \E k \in FailedSinceClear :
       tasks[k].pc = "thrown" /\ engine.violations = <<tasks[k].result[1]>>

---------------------------------------------------------------------------
(* checkAction on a limiter whose platform p has one token per window,     *)
(* with time passing between the calls and between the pieces of a call.   *)

QuotaActions ==
  { Plain("api-call"),
    [Plain("api-call") EXCEPT !.sponsored = TRUE, !.hasDisclosure = TRUE],
    Plain("unauthorized-access") }

QuotaContexts == { [platform |-> "p"] }

QuotaElapses == {1000, 59000}

\* The engines of InitCompliance that were given a limiter.
InitQuota ==
  /\ InitCompliance
  /\ engine.rateLimiter

NextQuota ==
  \/ \E k \in Tasks, action \in QuotaActions, context \in QuotaContexts :
       CheckAction(k, action, context)
  \/ \E k \in Tasks : CheckActionRateLimit(k)
  \/ \E k \in Tasks : CheckActionFinish(k)
  \/ \E d \in QuotaElapses : Advance(d)

SpecQuota == InitQuota /\ [][NextQuota]_vars

\* The checks of a result that failed.
FailedChecks(result) ==
  SelectSeq(result.checks, LAMBDA check : ~check.passed)

\* C23: on a platform limited to 1/1/1 the checkAction call that takes the
\* token passes when its other checks pass; in lenient mode a later api-call
\* on the platform that ends within one minute of the first returns a
\* failed result whose only failing check is the rate-limit check, with
\* remaining.minute = 0.  In any mode, a call that acquireToken refuses and
\* whose legal, platform and disclosure checks pass fails on the rate-limit
\* check alone.
C23_SecondCallFailsOnRateLimit ==
  \A k \in EndedChecks :
    LET t == tasks[k]
        r == t.result[1]
        othersPass ==
          /\ CheckLegal(t.action).passed
          /\ CheckPlatformRules(t.platform, t.action).passed
          /\ RequiresDisclosure(t.action) => CheckDisclosure(t.action).passed
    IN  /\ (t.acquired /\ othersPass) => r.passed
        /\ (~t.acquired /\ othersPass) =>
              /\ ~r.passed
              /\ Len(FailedChecks(r)) = 1
              /\ FailedChecks(r)[1].category = "rateLimit"
        /\ \A k1 \in DOMAIN tasks \ {k} :
              (/\ ~engine.strictMode
               /\ t.action = Plain("api-call")
               /\ tasks[k1].action = Plain("api-call")
               /\ tasks[k1].platform = t.platform
               /\ tasks[k1].acquired
               /\ now < tasks[k1].calledAt + MinuteMs) =>
                 /\ t.pc = "returned"
                 /\ ~r.passed
                 /\ Len(FailedChecks(r)) = 1
                 /\ FailedChecks(r)[1].category = "rateLimit"
                 /\ FailedChecks(r)[1].remaining.minute = 0

\* In lenient mode the first api-call on p has passed and a second one has
\* returned failed on the rate limit alone, within the minute.
C23_Witness ==
  /\ ~engine.strictMode
  /\ \E k1, k2 \in EndedChecks :
       /\ tasks[k1].action = Plain("api-call")
       /\ tasks[k2].action = Plain("api-call")
       /\ tasks[k1].platform = "p"
       /\ tasks[k2].platform = "p"
       /\ tasks[k1].result[1].passed
       /\ now < tasks[k1].calledAt + MinuteMs
       /\ tasks[k2].pc = "returned"
       /\ ~tasks[k2].result[1].passed
       /\ Len(FailedChecks(tasks[k2].result[1])) = 1
       /\ tasks[k2].result[1].checks[3].remaining.minute = 0

---------------------------------------------------------------------------
(* The rules: checkLegal, checkPlatformRules and checkDisclosure, as one   *)
(* checkAction call applies them to any action and context.                *)

ActionTypes ==
  {"api-call", "unauthorized-access", "fraud", "spam", "send-message",
   "submit-proposal", "post-affiliate-link", "sponsored-content"}

ActionFlags ==
  {"fraudulent", "userConsent", "personalResponse", "automated",
   "affiliate", "sponsored", "hasDisclosure"}

\* No check reads more than three of the flags (checkDisclosure, with
\* requiresDisclosure, reads affiliate, sponsored and hasDisclosure).
MaxFlags == 3

\* The action objects: a type, and at most MaxFlags of the optional flags
\* set.
RuleActions ==
  {action \in [type : ActionTypes, fraudulent : BOOLEAN,
                userConsent : BOOLEAN, personalResponse : BOOLEAN,
                automated : BOOLEAN, affiliate : BOOLEAN,
                sponsored : BOOLEAN, hasDisclosure : BOOLEAN] :
     Cardinality({f \in ActionFlags : action[f]}) <= MaxFlags}

KnownPlatforms == {"github", "fiverr", "upwork"}

RulePlatforms == KnownPlatforms \cup {"p", "constructor"}

RuleContexts == {EmptyMap} \cup {[platform |-> q] : q \in RulePlatforms}

\* The one checkAction call made on the engine.
CheckOneAction(k, action, context) ==
  /\ tasks = EmptyMap
  /\ CheckAction(k, action, context)

NextRules ==
  \/ \E action \in RuleActions, context \in RuleContexts :
       CheckOneAction("t1", action, context)
  \/ \E k \in Tasks : CheckActionRateLimit(k)
  \/ \E k \in Tasks : CheckActionFinish(k)

\* The engine as constructed, on a limiter that is new or whose platform p
\* has had its one token taken by an earlier call.
InitRules ==
  /\ now = 0
  /\ platformLimits =
       [p \in {"fiverr", "p"} |->
          MergeLimits([requestsPerMinute |-> 1, requestsPerHour |-> 1,
                       burstLimit |-> 1])]
  /\ engine \in Engines
  /\ \/ platforms = EmptyMap
     \/ /\ engine.rateLimiter
        /\ platforms = [p \in {"p"} |->
                          AfterAcquires(NewState(platformLimits[p], 0), 1)]
  /\ overridden = {}
  /\ logger = NoLogger
  /\ accounts = EmptyMap
  /\ strategy = NoStrategy
  /\ machine = NoMachine
  /\ manager = NoManager
  /\ scheduler = NoScheduler
  /\ tasks = EmptyMap
  /\ last = NoCall
  /\ grants = Untracked
  /\ emptiedAt = Cleared
  /\ race = EmptyMap
  /\ steps = 0

SpecRules == InitRules /\ [][NextRules]_vars

\* The check of the given category in the result of an ended call, as a
\* sequence of length 0 or 1.
CheckOf(k, category) ==
  SelectSeq(tasks[k].result[1].checks,
            LAMBDA check : check.category = category)

\* C24: for a platform name other than github, fiverr and upwork the
\* platform-rule check of checkAction passes, with an empty list of
\* violations and a note, whatever the action.
C24_UnknownPlatformPasses ==
  \A k \in EndedChecks :
    (HasPlatform(tasks[k].context) /\ tasks[k].platform \notin KnownPlatforms)
      => /\ Len(CheckOf(k, "platform")) = 1
         /\ CheckOf(k, "platform")[1].passed
         /\ CheckOf(k, "platform")[1].violations = <<>>
         /\ "note" \in DOMAIN CheckOf(k, "platform")[1]

\* C25: the legal check of checkAction fails exactly when the action's type
\* is unauthorized-access, or its type is fraud or its fraudulent flag is
\* set, or its type is spam and its userConsent flag is not set, whatever
\* the context, the engine and the state of the limiter.
C25_LegalCheck ==
  \A k \in EndedChecks :
    LET action == tasks[k].action
        legal  == tasks[k].result[1].checks[1]
    IN  /\ legal.category = "legal"
        /\ Len(CheckOf(k, "legal")) = 1
        /\ legal.passed = (legal.violations = <<>>)
        /\ ~legal.passed =
              \/ action.type = "unauthorized-access"
              \/ action.type = "fraud"
              \/ action.fraudulent
              \/ action.type = "spam" /\ ~action.userConsent

\* A spam action with userConsent has passed the legal check while failing
\* on the rate limit of a platform whose token an earlier call had taken.
C25_Witness ==
  \E k \in EndedChecks :
    /\ tasks[k].action.type = "spam"
    /\ tasks[k].action.userConsent
    /\ ~tasks[k].action.fraudulent
    /\ tasks[k].result[1].checks[1].passed
    /\ Len(CheckOf(k, "rateLimit")) = 1
    /\ ~CheckOf(k, "rateLimit")[1].passed

\* C26: for github, fiverr and upwork the platform-rule check of checkAction
\* fails exactly when the platform is fiverr (noAutomatedCommunication) and
\* the action is a send-message without personalResponse, or the platform is
\* upwork (noAutomatedBidding) and the action is a submit-proposal with
\* automated set; for github it passes for every action.
C26_PlatformRuleCheck ==
  \A k \in EndedChecks :
    (HasPlatform(tasks[k].context) /\ tasks[k].platform \in KnownPlatforms) =>
      LET action   == tasks[k].action
          platform == tasks[k].platform
          check    == tasks[k].result[1].checks[2]
      IN  /\ check.category = "platform"
          /\ check.platform = platform
          /\ Len(CheckOf(k, "platform")) = 1
          /\ check.passed = (check.violations = <<>>)
          /\ ("noAutomatedCommunication" \in PlatformRules[platform])
                = (platform = "fiverr")
          /\ ("noAutomatedBidding" \in PlatformRules[platform])
                = (platform = "upwork")
          /\ ~check.passed =
                \/ /\ platform = "fiverr"
                   /\ action.type = "send-message"
                   /\ ~action.personalResponse
                \/ /\ platform = "upwork"
                   /\ action.type = "submit-proposal"
                   /\ action.automated
          /\ platform = "github" => check.passed

\* An automated submit-proposal has failed the platform check on upwork, in
\* a result whose legal check passed.
C26_Witness ==
  \E k \in EndedChecks :
    /\ tasks[k].platform = "upwork"
    /\ tasks[k].action.type = "submit-proposal"
    /\ tasks[k].action.automated
    /\ tasks[k].result[1].checks[1].passed
    /\ ~tasks[k].result[1].checks[2].passed
    /\ Len(tasks[k].result[1].checks[2].violations) = 1

\* C27: the result of checkAction has a disclosure check exactly when the
\* action's type is post-affiliate-link or sponsored-content or its
\* affiliate or sponsored flag is set; the check, when there, fails exactly
\* when the action's hasDisclosure flag is not set.
C27_DisclosureCheck ==
  \A k \in EndedChecks :
    LET action == tasks[k].action
        found  == CheckOf(k, "disclosure")
    IN  /\ Len(found) <= 1
        /\ (Len(found) = 1) =
              \/ action.type = "post-affiliate-link"
              \/ action.type = "sponsored-content"
              \/ action.affiliate
              \/ action.sponsored
        /\ Len(found) = 1 =>
              /\ found[1].passed = action.hasDisclosure
              /\ found[1].passed = (found[1].violations = <<>>)

\* A sponsored api-call without hasDisclosure has failed on its disclosure
\* check alone, after its rate-limit check passed.
C27_Witness ==
  \E k \in EndedChecks :
    /\ tasks[k].action.type = "api-call"
    /\ tasks[k].action.sponsored
    /\ ~tasks[k].action.affiliate
    /\ ~tasks[k].action.hasDisclosure
    /\ Len(tasks[k].result[1].checks) = 4
    /\ tasks[k].result[1].checks[3].passed
    /\ Len(FailedChecks(tasks[k].result[1])) = 1
    /\ FailedChecks(tasks[k].result[1])[1].category = "disclosure"

---------------------------------------------------------------------------
(* GitHubSponsorsStrategy (src/src/strategies/github-sponsors.js): execute *)
(* submits its api-call on github to checkAction, awaits it, then fetches  *)
(* the sponsorship data and counts the action.  An execute call is a task: *)
(* it runs as the checkAction call it makes until that call has ended.     *)

\* The action and the context execute passes to checkAction.
SponsorsAction == Plain("api-call")

SponsorsContext == [platform |-> "github"]

\* What the fetch of the sponsorship data ends as: the data, or an error.
FetchOutcomes == {"ok", "API_ERROR"}

\* monthlyEstimatedSponsorsIncomeInCents of the data fetched.
SponsorsIncomes == {0, 500}

\* The strategy as constructed and then initialized with a context: with or
\* without a compliance engine, with or without a token.
ReadyStrategy(complianceEngine, githubToken) ==
  [status |-> "ready", earnings |-> 0, actions |-> 0, errors |-> <<>>,
   complianceEngine |-> complianceEngine, lastFetchedData |-> <<>>,
   config |-> [githubToken |-> githubToken, login |-> TRUE]]

\* The catch block of execute, entered by task k with the given error: the
\* error is recorded and { success: false } is returned.
Caught(k, check, fetched, message, code) ==
  /\ strategy' = [strategy EXCEPT
                    !.errors = Append(@, [error |-> message, code |-> code])]
  /\ tasks' = MapSet(tasks, k,
                     [kind |-> "execute", pc |-> "returned", check |-> check,
                      fetched |-> fetched,
                      ret |-> <<[success |-> FALSE, error |-> message]>>])

\* execute goes on to fetchSponsorsData, which throws without a token or a
\* login and otherwise awaits the fetch.
FetchSponsorsData(k, check) ==
  IF ~strategy.config.githubToken
  THEN Caught(k, check, FALSE, "GITHUB_TOKEN is required", "UNKNOWN")
  ELSE IF ~strategy.config.login
  THEN Caught(k, check, FALSE, "GitHub login is required", "UNKNOWN")
  ELSE /\ tasks' = MapSet(tasks, k,
                          [kind |-> "execute", pc |-> "awaitFetch",
                           check |-> check, fetched |-> TRUE, ret |-> <<>>])
       /\ UNCHANGED strategy

\* A task calls execute(): with a compliance engine, up to the first await
\* of its checkAction call; without one, up to the await of the fetch.
Execute(k) ==
  IF strategy.complianceEngine
  THEN /\ CheckActionFor("execute", k, SponsorsAction, SponsorsContext)
       /\ UNCHANGED strategy
  ELSE /\ CanStep
       /\ IsFreeTask(k)
       /\ FetchSponsorsData(k, <<>>)
       /\ steps' = steps + 1
       /\ UNCHANGED <<now, platforms, platformLimits, overridden, engine,
                      logger, accounts, machine, manager, scheduler, last,
                      grants, emptiedAt, race>>

\* execute resumes after await checkAction: a rejection goes to the catch
\* block; a result, whatever it says, is dropped and the fetch begins.
ExecuteResume(k) ==
  /\ CanStep
  /\ k \in DOMAIN tasks
  /\ tasks[k].kind = "checkAction"
  /\ tasks[k].caller = "execute"
  /\ tasks[k].pc \in {"returned", "thrown"}
  /\ IF tasks[k].pc = "thrown"
     THEN Caught(k, tasks[k].result, FALSE,
                 "Action violates compliance rules", "UNKNOWN")
     ELSE FetchSponsorsData(k, tasks[k].result)
  /\ steps' = steps + 1
  /\ UNCHANGED <<now, platforms, platformLimits, overridden, engine, logger,
                 accounts, machine, manager, scheduler, last, grants,
                 emptiedAt, race>>

\* execute resumes after the fetch: with the data it sets the earnings,
\* counts the action and returns { success: true }; an error goes to the
\* catch block.
ExecuteFetched(k, outcome, cents) ==
  /\ CanStep
  /\ k \in DOMAIN tasks
  /\ tasks[k].kind = "execute"
  /\ tasks[k].pc = "awaitFetch"
  /\ IF outcome = "ok"
     THEN /\ strategy' = [strategy EXCEPT !.lastFetchedData = <<cents>>,
                                          !.earnings = cents \div 100,
                                          !.actions = @ + 1]
          /\ tasks' = [tasks EXCEPT
                        ![k].pc = "returned",
                        ![k].ret = <<[success |-> TRUE,
                                      earnings |-> cents \div 100]>>]
     ELSE Caught(k, tasks[k].check, TRUE, "GitHub API request failed",
                 outcome)
  /\ steps' = steps + 1
  /\ UNCHANGED <<now, platforms, platformLimits, overridden, engine, logger,
                 accounts, machine, manager, scheduler, last, grants,
                 emptiedAt, race>>

\* The strategy initialized with an engine on a limiter with the default
\* limits, new or with ten calls on github just admitted (its burst spent).
InitStrategy ==
  /\ now = 0
  /\ platformLimits = EmptyMap
  /\ platforms \in
       { EmptyMap,
         [p \in {"github"} |-> AfterAcquires(NewState(defaultLimits, 0), 10)] }
  /\ overridden = {}
  /\ engine \in {NewEngine(config, TRUE) : config \in EngineConfigs}
  /\ logger = NoLogger
  /\ accounts = EmptyMap
  /\ strategy \in {ReadyStrategy(e, t) : e \in BOOLEAN, t \in BOOLEAN}
  /\ machine = NoMachine
  /\ manager = NoManager
  /\ scheduler = NoScheduler
  /\ tasks = EmptyMap
  /\ last = NoCall
  /\ grants = Untracked
  /\ emptiedAt = Cleared
  /\ race = EmptyMap
  /\ steps = 0

NextStrategy ==
  \/ \E k \in Tasks : Execute(k)
  \/ \E k \in Tasks : CheckActionRateLimit(k)
  \/ \E k \in Tasks : CheckActionFinish(k)
  \/ \E k \in Tasks : ExecuteResume(k)
  \/ \E k \in Tasks, outcome \in FetchOutcomes, cents \in SponsorsIncomes :
       ExecuteFetched(k, outcome, cents)

SpecStrategy == InitStrategy /\ [][NextStrategy]_vars

\* The execute calls that have got past their compliance check.
Executions == {k \in DOMAIN tasks : tasks[k].kind = "execute"}

\* C28: an execute call whose compliance check failed, by throw (strict
\* mode) or by a returned result with passed = false (lenient mode), has
\* not begun its fetch and returns success: false; the actions counter
\* counts only calls whose check passed or that had no engine to ask.
C28_NoActionAfterFailedCheck ==
  /\ \A k \in Executions :
       (tasks[k].check # <<>> /\ ~tasks[k].check[1].passed) =>
         /\ ~tasks[k].fetched
         /\ tasks[k].pc = "returned"
         /\ ~tasks[k].ret[1].success
  /\ strategy.actions =
       Cardinality({k \in Executions :
                      /\ tasks[k].ret # <<>>
                      /\ tasks[k].ret[1].success
                      /\ tasks[k].check # <<>> => tasks[k].check[1].passed})

---------------------------------------------------------------------------
(* Logger (src/src/core/logger.js lines 8-225): the level filter and the   *)
(* list of entries.                                                        *)

\* this.levels
Levels == [debug |-> 0, info |-> 1, warn |-> 2, error |-> 3]

\* The configs given to the constructor: {} and { level }.
LoggerConfigs == {EmptyMap} \cup {[level |-> l] : l \in DOMAIN Levels}

Messages == {"a", "b"}

\* The level arguments of getLogs: none (null), or a level.
LevelFilters == {"", "warn"}

\* The number of debug/info/warn/error calls made on a logger is bounded.
MaxLogCalls == 3

\* new Logger(config): level is config.level || 'info'.
NewLogger(config) ==
  [level |-> IF "level" \in DOMAIN config THEN config.level ELSE "info",
   logs |-> <<>>, calls |-> <<>>, cleared |-> 0]

\* Mutant: only the levels above the configured one are logged.
ShouldLogAbove(level) == Levels[level] > Levels[logger.level]

\* shouldLog(level)
ShouldLog(level) == Levels[level] >= Levels[logger.level]

\* formatEntry(level, message, context), at the present time.
FormatEntry(level, message, context) ==
  [timestamp |-> now, level |-> level, message |-> message,
   context |-> context]

\* write(level, message, context), as the public method of the level calls
\* it; the call is added to the history of the calls made.  The public
\* method is recorded as the last call.
Write(level, message, context) ==
  /\ CanStep
  /\ Len(logger.calls) < MaxLogCalls
  /\ logger' =
       [logger EXCEPT
          !.logs = IF ShouldLog(level)
                   THEN Append(@, FormatEntry(level, message, context))
                   ELSE @,
          !.calls = Append(@, [level |-> level, message |-> message])]
  /\ steps' = steps + 1
  /\ UNCHANGED <<now, platforms, platformLimits, overridden, engine, accounts,
                 strategy, machine, manager, scheduler, tasks, grants,
                 emptiedAt, race>>

\* debug(message)
Debug(message) ==
  /\ Write("debug", message, EmptyMap)
  /\ last' = [op |-> "debug", at |-> now]

\* info(message)
Info(message) ==
  /\ Write("info", message, EmptyMap)
  /\ last' = [op |-> "info", at |-> now]

\* warn(message)
Warn(message) ==
  /\ Write("warn", message, EmptyMap)
  /\ last' = [op |-> "warn", at |-> now]

\* error(message): the context of the entry is { error: null }.
Error(message) ==
  /\ Write("error", message, [error |-> "null"])
  /\ last' = [op |-> "error", at |-> now]

\* getLogs(level): a copy of the entries, or of those of the given level.
GetLogs(level) ==
  /\ CanStep
  /\ last' = [op |-> "getLogs", at |-> now, level |-> level,
              ret |-> IF level # ""
                      THEN SelectSeq(logger.logs,
                                     LAMBDA log : log.level = level)
                      ELSE logger.logs]
  /\ steps' = steps + 1
  /\ UNCHANGED <<now, platforms, platformLimits, overridden, engine, logger,
                 accounts, strategy, machine, manager, scheduler, tasks,
                 grants, emptiedAt, race>>

\* clear(): the entries are dropped; the logger keeps, as history, how many
\* calls had been made by then.
Clear ==
  /\ CanStep
  /\ logger' = [logger EXCEPT !.logs = <<>>, !.cleared = Len(logger.calls)]
  /\ last' = [op |-> "clear", at |-> now]
  /\ steps' = steps + 1
  /\ UNCHANGED <<now, platforms, platformLimits, overridden, engine, accounts,
                 strategy, machine, manager, scheduler, tasks, grants,
                 emptiedAt, race>>

InitLogger ==
  /\ now = 0
  /\ platforms = EmptyMap
  /\ platformLimits = EmptyMap
  /\ overridden = {}
  /\ engine = NoEngine
  /\ logger \in {NewLogger(config) : config \in LoggerConfigs}
  /\ accounts = EmptyMap
  /\ strategy = NoStrategy
  /\ machine = NoMachine
  /\ manager = NoManager
  /\ scheduler = NoScheduler
  /\ tasks = EmptyMap
  /\ last = NoCall
  /\ grants = Untracked
  /\ emptiedAt = Cleared
  /\ race = EmptyMap
  /\ steps = 0

NextLogger ==
  \/ \E message \in Messages : Debug(message)
  \/ \E message \in Messages : Info(message)
  \/ \E message \in Messages : Warn(message)
  \/ \E message \in Messages : Error(message)
  \/ \E level \in LevelFilters : GetLogs(level)
  \/ Clear

SpecLogger == InitLogger /\ [][NextLogger]_vars

\* The levels from the lowest rank to the highest.
LevelOrder == <<"debug", "info", "warn", "error">>

\* The rank of a level: its place in LevelOrder.
RankOf(level) == CHOOSE i \in 1..Len(LevelOrder) : LevelOrder[i] = level

\* The calls made since construction or the last clear() whose level ranks
\* at or above the configured level, in the order they were made.
CallsToRecord ==
  SelectSeq(SubSeq(logger.calls, logger.cleared + 1, Len(logger.calls)),
            LAMBDA call : RankOf(call.level) >= RankOf(logger.level))

\* C29: the entries of the Logger are, in call order, those of the debug,
\* info, warn and error calls whose level ranks at or above the configured
\* level (debug < info < warn < error), one entry for each such call and
\* none for the others; getLogs() returns them in that order.
C29_LevelFilterAndOrder ==
  /\ Len(logger.logs) = Len(CallsToRecord)
  /\ \A i \in 1..Len(logger.logs) :
       /\ logger.logs[i].level = CallsToRecord[i].level
       /\ logger.logs[i].message = CallsToRecord[i].message
  /\ (LastIs("getLogs") /\ last.level = "") => last.ret = logger.logs

\* A logger at level warn was given an info, a warn and an error call, and
\* getLogs() has returned the entries of the last two, in that order.
C29_Witness ==
  /\ logger.level = "warn"
  /\ logger.cleared = 0
  /\ Len(logger.calls) = 3
  /\ logger.calls[1].level = "info"
  /\ logger.calls[2].level = "warn"
  /\ logger.calls[3].level = "error"
  /\ LastIs("getLogs")
  /\ last.level = ""
  /\ Len(last.ret) = 2
  /\ last.ret[1].level = "warn"
  /\ last.ret[2].level = "error"
  /\ last.ret[1].message # last.ret[2].message

---------------------------------------------------------------------------
(* AccountManager (src/unnamed/part_003 lines 8-219).  Its methods are     *)
(* async but await nothing, so each runs to its end when it is called.     *)
(* A credentials object maps its property names to JavaScript values, each *)
(* modelled by its type and its content.  The timestamps of rotation,      *)
(* disabling and enabling are not modelled.                                *)

\* A string.
Str(chars) == [type |-> "string", value |-> chars]

\* A Date object, named by its ISO form.
DateAt(iso) == [type |-> "Date", value |-> iso]

\* The credentials given to addAccount and rotateCredentials.
CredentialArgs ==
  { [username |-> Str("test"), password |-> Str("secret")],
    [username |-> Str("test"), password |-> Str("rotated")],
    [token |-> Str("t"), expiresAt |-> DateAt("1970-01-01T00:00:00.000Z")] }

AccountPlatforms == {"github", "p"}

\* JSON.stringify(credentials): the JSON text, as the members it lists.  A
\* property whose value is undefined is left out, a Date is written as the
\* string of its toJSON(), a string as itself.
JsonStringify(credentials) ==
  [f \in {g \in DOMAIN credentials : credentials[g].type # "undefined"} |->
     IF credentials[f].type = "Date" THEN Str(credentials[f].value)
     ELSE credentials[f]]

\* JSON.parse(text): the object with the members of the text.
JsonParse(text) == [f \in DOMAIN text |-> text[f]]

\* Buffer.from(text).toString('base64')
ToBase64(text) == [base64 |-> text]

\* Buffer.from(data, 'base64').toString()
FromBase64(data) == data.base64

\* obfuscate(credentials)
Obfuscate(credentials) ==
  [obfuscated |-> TRUE, data |-> ToBase64(JsonStringify(credentials))]

\* deobfuscate(obfuscated)
Deobfuscate(stored) ==
  IF ~stored.obfuscated THEN stored
  ELSE JsonParse(FromBase64(stored.data))

\* addAccount(platform, credentials).  The account keeps, as history, the
\* credentials as they were given.
AddAccount(p, credentials) ==
  /\ CanStep
  /\ accounts' = MapSet(accounts, p,
                        [credentials |-> Obfuscate(credentials),
                         status      |-> "active",
                         addedAt     |-> now,
                         lastUsed    |-> <<>>,
                         given       |-> credentials])
  /\ last' = [op |-> "addAccount", platform |-> p, at |-> now]
  /\ steps' = steps + 1
  /\ UNCHANGED <<now, platforms, platformLimits, overridden, engine, logger,
                 strategy, machine, manager, scheduler, tasks, grants,
                 emptiedAt, race>>

\* getAccount(platform): <<the credentials>>, or <<>> for null.
GetAccount(p) ==
  /\ CanStep
  /\ IF p \notin DOMAIN accounts
     THEN /\ last' = [op |-> "getAccount", platform |-> p, at |-> now,
                      ret |-> <<>>]
          /\ UNCHANGED accounts
     ELSE IF accounts[p].status # "active"
     THEN /\ last' = [op |-> "getAccount", platform |-> p, at |-> now,
                      ret |-> <<>>]
          /\ UNCHANGED accounts
     ELSE /\ accounts' = [accounts EXCEPT ![p].lastUsed = <<now>>]
          /\ last' = [op |-> "getAccount", platform |-> p, at |-> now,
                      ret |-> <<Deobfuscate(accounts[p].credentials)>>]
  /\ steps' = steps + 1
  /\ UNCHANGED <<now, platforms, platformLimits, overridden, engine, logger,
                 strategy, machine, manager, scheduler, tasks, grants,
                 emptiedAt, race>>

\* rotateCredentials(platform, newCredentials): throws when the platform
\* has no account.
RotateCredentials(p, newCredentials) ==
  /\ CanStep
  /\ IF p \notin DOMAIN accounts
     THEN /\ last' = [op |-> "rotateCredentials", platform |-> p,
                      at |-> now, threw |-> TRUE]
          /\ UNCHANGED accounts
     ELSE /\ accounts' = [accounts EXCEPT
                           ![p].credentials = Obfuscate(newCredentials),
                           ![p].given = newCredentials]
          /\ last' = [op |-> "rotateCredentials", platform |-> p,
                      at |-> now, threw |-> FALSE]
  /\ steps' = steps + 1
  /\ UNCHANGED <<now, platforms, platformLimits, overridden, engine, logger,
                 strategy, machine, manager, scheduler, tasks, grants,
                 emptiedAt, race>>

\* removeAccount(platform)
RemoveAccount(p) ==
  /\ CanStep
  /\ accounts' = [q \in DOMAIN accounts \ {p} |-> accounts[q]]
  /\ last' = [op |-> "removeAccount", platform |-> p, at |-> now,
              ret |-> p \in DOMAIN accounts]
  /\ steps' = steps + 1
  /\ UNCHANGED <<now, platforms, platformLimits, overridden, engine, logger,
                 strategy, machine, manager, scheduler, tasks, grants,
                 emptiedAt, race>>

\* disableAccount(platform)
DisableAccount(p) ==
  /\ CanStep
  /\ accounts' = IF p \in DOMAIN accounts
                 THEN [accounts EXCEPT ![p].status = "disabled"]
                 ELSE accounts
  /\ last' = [op |-> "disableAccount", platform |-> p, at |-> now]
  /\ steps' = steps + 1
  /\ UNCHANGED <<now, platforms, platformLimits, overridden, engine, logger,
                 strategy, machine, manager, scheduler, tasks, grants,
                 emptiedAt, race>>

\* enableAccount(platform)
EnableAccount(p) ==
  /\ CanStep
  /\ accounts' = IF p \in DOMAIN accounts
                 THEN [accounts EXCEPT ![p].status = "active"]
                 ELSE accounts
  /\ last' = [op |-> "enableAccount", platform |-> p, at |-> now]
  /\ steps' = steps + 1
  /\ UNCHANGED <<now, platforms, platformLimits, overridden, engine, logger,
                 strategy, machine, manager, scheduler, tasks, grants,
                 emptiedAt, race>>

\* new AccountManager()
InitAccounts ==
  /\ now = 0
  /\ platforms = EmptyMap
  /\ platformLimits = EmptyMap
  /\ overridden = {}
  /\ engine = NoEngine
  /\ logger = NoLogger
  /\ accounts = EmptyMap
  /\ strategy = NoStrategy
  /\ machine = NoMachine
  /\ manager = NoManager
  /\ scheduler = NoScheduler
  /\ tasks = EmptyMap
  /\ last = NoCall
  /\ grants = Untracked
  /\ emptiedAt = Cleared
  /\ race = EmptyMap
  /\ steps = 0

NextAccounts ==
  \/ \E p \in AccountPlatforms, c \in CredentialArgs : AddAccount(p, c)
  \/ \E p \in AccountPlatforms : GetAccount(p)
  \/ \E p \in AccountPlatforms, c \in CredentialArgs :
       RotateCredentials(p, c)
  \/ \E p \in AccountPlatforms : RemoveAccount(p)
  \/ \E p \in AccountPlatforms : DisableAccount(p)
  \/ \E p \in AccountPlatforms : EnableAccount(p)

SpecAccounts == InitAccounts /\ [][NextAccounts]_vars

\* C30: getAccount(platform) returns the credentials given to the latest
\* addAccount or rotateCredentials for the platform when the platform has
\* an account and the account is active, and null otherwise.
C30_GetAccountReturnsLatest ==
  LastIs("getAccount") =>
    last.ret = IF /\ last.platform \in DOMAIN accounts
                  /\ accounts[last.platform].status = "active"
               THEN <<accounts[last.platform].given>>
               ELSE <<>>

---------------------------------------------------------------------------
(* MoneyMachine (src/unnamed/part_003 lines 224-434) with the Scheduler    *)
(* (src/src/core/scheduler.js) and the StrategyManager                     *)
(* (src/src/core/strategy-manager.js) it owns.  The machine's logger is    *)
(* constructed at level info or error, so the debug calls its components   *)
(* make leave no entry and are left out.  A call that throws is recorded   *)
(* as the last call with threw set, a call that returns early with         *)
(* ignored set.                                                            *)

MachineConfigs ==
  { EmptyMap, [logLevel |-> "error"],
    [strictCompliance |-> FALSE, maxConcurrentStrategies |-> 1] }

\* The defaults of the constructor's this.config.
DefaultMachineConfig ==
  [logLevel |-> "info", strictCompliance |-> TRUE,
   maxConcurrentStrategies |-> 3]

\* { logLevel: 'info', strictCompliance: true, maxConcurrentStrategies: 3,
\*   ...config }
MergeConfig(config) ==
  [f \in DOMAIN DefaultMachineConfig |->
     IF f \in DOMAIN config THEN config[f] ELSE DefaultMachineConfig[f]]

\* The limits configurePlatformLimits gives to setPlatformLimits.
ConfiguredLimits ==
  [github |-> [requestsPerMinute |-> 80, requestsPerHour |-> 5000,
               burstLimit |-> 20],
   reddit |-> [requestsPerMinute |-> 60, requestsPerHour |-> 600,
               burstLimit |-> 10],
   fiverr |-> [requestsPerMinute |-> 30, requestsPerHour |-> 500,
               burstLimit |-> 5]]

\* The strategy modules: a name and the requiredAccounts getter.
StrategyModules ==
  { [name |-> "a", requiredAccounts |-> {}],
    [name |-> "b", requiredAccounts |-> {"github"}] }

\* The strategyIds argument of start: <<>> for null, or <<the list>>.
StartArgs == { <<>>, << <<"a", "a">> >> }

MachinePlatforms == {"github"}

MachineCredentials == { [token |-> Str("t")] }

\* The logger after level(message, context) was called on it.
Logged(lg, level, message, context) ==
  [lg EXCEPT
     !.logs = IF Levels[level] >= Levels[lg.level]
              THEN Append(@, FormatEntry(level, message, context))
              ELSE @,
     !.calls = Append(@, [level |-> level, message |-> message])]

\* const taskId = task.id || `task-${Date.now()}`
TaskIdOf(id) == IF id = "" THEN "task-" \o ToString(now) ELSE id

\* The scheduler after scheduleTask({ id, handler }, { intervalMs }): the
\* task is stored under its id; with an intervalMs an interval timer is
\* started and recorded under the id, in place of the timer recorded there
\* before.  A handler is named by what it runs ("" for no handler), an
\* absent intervalMs is 0.
ScheduleTaskOn(sch, id, handler, intervalMs) ==
  LET taskId == TaskIdOf(id)
      stored == [sch EXCEPT
                   !.tasks = MapSet(@, taskId,
                                    [id |-> id, handler |-> handler,
                                     schedule |->
                                       [intervalMs |-> intervalMs]])]
  IN  IF intervalMs = 0 THEN stored
      ELSE [stored EXCEPT
              !.timers = @ \cup {[id |-> sch.started + 1, task |-> taskId,
                                  due |-> now + intervalMs,
                                  intervalMs |-> intervalMs]},
              !.intervals = MapSet(@, taskId, sch.started + 1),
              !.started = @ + 1]

\* The loop of start over the strategy ids.
RECURSIVE ScheduleAll(_, _)
ScheduleAll(sch, strategyIds) ==
  IF strategyIds = <<>> THEN sch
  ELSE ScheduleAll(ScheduleTaskOn(sch, "strategy-" \o Head(strategyIds),
                                  Head(strategyIds), MinuteMs),
                   Tail(strategyIds))

\* The scheduler after shutdown(): the timers recorded in intervals are
\* cleared and the map is emptied.  shut collects the timers that were
\* running when shutdown() or cancelTask of their task was called.
ShutdownOf(sch) ==
  [sch EXCEPT
     !.timers = {t \in @ : \A id \in DOMAIN sch.intervals :
                              sch.intervals[id] # t.id},
     !.intervals = EmptyMap,
     !.running = FALSE,
     !.shut = @ \cup {t.id : t \in sch.timers}]

\* The scheduler after cancelTask(taskId).
CancelTaskOn(sch, taskId) ==
  [sch EXCEPT
     !.timers = IF taskId \in DOMAIN sch.intervals
                THEN {t \in @ : t.id # sch.intervals[taskId]}
                ELSE @,
     !.intervals = [q \in DOMAIN @ \ {taskId} |-> @[q]],
     !.tasks = [q \in DOMAIN @ \ {taskId} |-> @[q]],
     !.shut = @ \cup {t.id : t \in {u \in sch.timers : u.task = taskId}}]

\* A call that throws, or that returns before doing anything but logging.
Refused(op, threw) ==
  /\ last' = [op |-> op, at |-> now, threw |-> threw, ignored |-> ~threw]
  /\ UNCHANGED <<now, platforms, platformLimits, overridden, engine,
                 accounts, strategy, machine, manager, scheduler, tasks,
                 grants, emptiedAt, race>>

Done(op) == last' = [op |-> op, at |-> now, threw |-> FALSE, ignored |-> FALSE]

\* new MoneyMachine(config)
NewMoneyMachine(config) ==
  /\ CanStep
  /\ ~machine.made
  /\ machine' = [made |-> TRUE, initialized |-> FALSE, running |-> FALSE,
                 config |-> MergeConfig(config)]
  /\ logger' = NewLogger([level |-> MergeConfig(config).logLevel])
  /\ engine' = NewEngine([strictMode |->
                            IF MergeConfig(config).strictCompliance
                            THEN "true" ELSE "false"], TRUE)
  /\ manager' = NoManager
  /\ scheduler' = NoScheduler
  /\ accounts' = EmptyMap
  /\ platforms' = EmptyMap
  /\ platformLimits' = EmptyMap
  /\ Done("new")
  /\ steps' = steps + 1
  /\ UNCHANGED <<now, overridden, strategy, tasks, grants, emptiedAt, race>>

\* configurePlatformLimits(): setPlatformLimits for github, reddit, fiverr.
ConfigurePlatformLimits ==
  /\ platformLimits' =
       [q \in DOMAIN platformLimits \cup DOMAIN ConfiguredLimits |->
          IF q \in DOMAIN ConfiguredLimits
          THEN MergeLimits(ConfiguredLimits[q])
          ELSE platformLimits[q]]
  /\ platforms' =
       [q \in DOMAIN platforms |->
          IF q \in DOMAIN ConfiguredLimits
          THEN [platforms[q] EXCEPT
                  !.limits = MergeLimits(ConfiguredLimits[q])]
          ELSE platforms[q]]
  /\ overridden' = overridden \cup DOMAIN ConfiguredLimits

\* The body of initialize().
InitializeBody(op) ==
  IF machine.initialized
  THEN /\ logger' = Logged(logger, "warn",
                           "Money machine already initialized", EmptyMap)
       /\ Refused(op, FALSE)
  ELSE /\ ConfigurePlatformLimits
       /\ machine' = [machine EXCEPT !.initialized = TRUE]
       /\ logger' = Logged(Logged(logger, "info",
                                  "Initializing Money Machine...", EmptyMap),
                           "info", "Money Machine initialized successfully",
                           EmptyMap)
       /\ Done(op)
       /\ UNCHANGED <<now, engine, accounts, strategy, manager, scheduler,
                      tasks, grants, emptiedAt, race>>

\* initialize()
Initialize ==
  /\ CanStep
  /\ machine.made
  /\ InitializeBody("initialize")
  /\ steps' = steps + 1

\* createMoneyMachine(config): new MoneyMachine(config), then initialize()
\* on it, before anything else can reach the machine.
CreateMoneyMachine(config) ==
  /\ CanStep
  /\ ~machine.made
  /\ machine' = [made |-> TRUE, initialized |-> TRUE, running |-> FALSE,
                 config |-> MergeConfig(config)]
  /\ logger' = Logged(Logged(NewLogger([level |->
                                          MergeConfig(config).logLevel]),
                             "info", "Initializing Money Machine...",
                             EmptyMap),
                      "info", "Money Machine initialized successfully",
                      EmptyMap)
  /\ engine' = NewEngine([strictMode |->
                            IF MergeConfig(config).strictCompliance
                            THEN "true" ELSE "false"], TRUE)
  /\ manager' = NoManager
  /\ scheduler' = NoScheduler
  /\ accounts' = EmptyMap
  /\ platforms' = EmptyMap
  /\ platformLimits' =
       [q \in DOMAIN ConfiguredLimits |-> MergeLimits(ConfiguredLimits[q])]
  /\ overridden' = overridden \cup DOMAIN ConfiguredLimits
  /\ Done("createMoneyMachine")
  /\ steps' = steps + 1
  /\ UNCHANGED <<now, strategy, tasks, grants, emptiedAt, race>>

\* addAccount(platform, credentials) of the machine.
MachineAddAccount(p, credentials) ==
  /\ CanStep
  /\ machine.made
  /\ IF ~machine.initialized
     THEN Refused("addAccount", TRUE) /\ UNCHANGED logger
     ELSE /\ accounts' = MapSet(accounts, p,
                                [credentials |-> Obfuscate(credentials),
                                 status      |-> "active",
                                 addedAt     |-> now,
                                 lastUsed    |-> <<>>,
                                 given       |-> credentials])
          /\ logger' = Logged(logger, "info", "Account added",
                              [platform |-> p])
          /\ Done("addAccount")
          /\ UNCHANGED <<now, platforms, platformLimits, overridden, engine,
                         strategy, machine, manager, scheduler, tasks,
                         grants, emptiedAt, race>>
  /\ steps' = steps + 1

\* strategies.set(name, strategy): a new name goes to the end of the map.
WithStrategy(strategies, name) ==
  IF \E i \in 1..Len(strategies) : strategies[i] = name THEN strategies
  ELSE Append(strategies, name)

\* loadStrategy(strategy): the strategy's required accounts are looked up,
\* the strategy is initialized and given to the strategy manager, which
\* logs it as the machine does.
LoadStrategy(module) ==
  /\ CanStep
  /\ machine.made
  /\ IF ~machine.initialized
     THEN Refused("loadStrategy", TRUE) /\ UNCHANGED logger
     ELSE IF ~(module.requiredAccounts \subseteq DOMAIN accounts)
     THEN Refused("loadStrategy", TRUE) /\ UNCHANGED logger
     ELSE /\ manager' = [manager EXCEPT
                           !.strategies = WithStrategy(@, module.name)]
          /\ logger' = Logged(Logged(logger, "info", "Strategy loaded",
                                     [strategy |-> module.name]),
                              "info", "Strategy loaded",
                              [strategy |-> module.name])
          /\ Done("loadStrategy")
          /\ UNCHANGED <<now, platforms, platformLimits, overridden, engine,
                         accounts, strategy, machine, scheduler, tasks,
                         grants, emptiedAt, race>>
  /\ steps' = steps + 1

\* Mutant: start does not look at initialized.
StartUnchecked(strategyIds) ==
  /\ CanStep
  /\ machine.made
  /\ IF machine.running
     THEN /\ logger' = Logged(logger, "warn", "Money machine already running",
                              EmptyMap)
          /\ Refused("start", FALSE)
     ELSE /\ machine' = [machine EXCEPT !.running = TRUE]
          /\ logger' = Logged(logger, "info", "Money Machine started",
                              EmptyMap)
          /\ scheduler' =
               ScheduleAll(scheduler,
                           IF strategyIds = <<>> THEN manager.strategies
                           ELSE strategyIds[1])
          /\ Done("start")
          /\ UNCHANGED <<now, platforms, platformLimits, overridden, engine,
                         accounts, strategy, manager, tasks, grants,
                         emptiedAt, race>>
  /\ steps' = steps + 1

\* start(strategyIds): every id is scheduled as task strategy-<id>, every
\* 60 000 ms.
Start(strategyIds) ==
  /\ CanStep
  /\ machine.made
  /\ IF ~machine.initialized
     THEN Refused("start", TRUE) /\ UNCHANGED logger
     ELSE IF machine.running
     THEN /\ logger' = Logged(logger, "warn", "Money machine already running",
                              EmptyMap)
          /\ Refused("start", FALSE)
     ELSE /\ machine' = [machine EXCEPT !.running = TRUE]
          /\ logger' = Logged(logger, "info", "Money Machine started",
                              EmptyMap)
          /\ scheduler' =
               ScheduleAll(scheduler,
                           IF strategyIds = <<>> THEN manager.strategies
                           ELSE strategyIds[1])
          /\ Done("start")
          /\ UNCHANGED <<now, platforms, platformLimits, overridden, engine,
                         accounts, strategy, manager, tasks, grants,
                         emptiedAt, race>>
  /\ steps' = steps + 1

\* stop()
Stop ==
  /\ CanStep
  /\ machine.made
  /\ IF ~machine.running
     THEN /\ logger' = Logged(logger, "warn", "Money machine not running",
                              EmptyMap)
          /\ Refused("stop", FALSE)
     ELSE /\ machine' = [machine EXCEPT !.running = FALSE]
          /\ scheduler' = ShutdownOf(scheduler)
          /\ logger' = Logged(Logged(logger, "info",
                                     "Stopping Money Machine...", EmptyMap),
                              "info", "Money Machine stopped", EmptyMap)
          /\ Done("stop")
          /\ UNCHANGED <<now, platforms, platformLimits, overridden, engine,
                         accounts, strategy, manager, tasks, grants,
                         emptiedAt, race>>
  /\ steps' = steps + 1

NextMachine ==
  \/ \E config \in MachineConfigs : NewMoneyMachine(config)
  \/ \E config \in MachineConfigs : CreateMoneyMachine(config)
  \/ Initialize
  \/ \E p \in MachinePlatforms, c \in MachineCredentials :
       MachineAddAccount(p, c)
  \/ \E module \in StrategyModules : LoadStrategy(module)
  \/ \E strategyIds \in StartArgs : Start(strategyIds)
  \/ Stop

SpecMachine == Init /\ [][NextMachine]_vars

\* What the machine is made of, the log apart.
MachineState ==
  <<machine, manager, scheduler, accounts, platforms, platformLimits,
    overridden, engine>>

\* A call of op on a constructed machine happens in this step.
Calls(ops) == steps' # steps /\ machine.made /\ last'.op \in ops

C31_WitnessIgnored ==
  /\ machine.running /\ machine.initialized
  /\ LastIs("start") /\ last.ignored
  /\ DOMAIN scheduler.tasks # {}

---------------------------------------------------------------------------
(* The Scheduler on its own (src/src/core/scheduler.js): tasks are         *)
(* scheduled, cancelled and shut down while the clock moves and the        *)
(* interval timers fire.  A timer that is due fires before the clock       *)
(* moves on.                                                               *)

SchedulerIds == {"x", ""}

SchedulerHandlers == {"h", ""}

SchedulerIntervals == {0, MinuteMs}

SchedulerElapses == {1, MinuteMs}

OtherThanScheduler ==
  <<platforms, platformLimits, overridden, engine, logger, accounts,
    strategy, machine, manager, tasks, grants, emptiedAt, race>>

TimerIsDue == \E t \in scheduler.timers : t.due <= now

\* The numbers of the timers a run can start.
TimerIds == 1..(MaxSteps + 2)

\* The running timer number n.
TimerOf(sch, n) == CHOOSE t \in sch.timers : t.id = n

\* The timers after the interval timer t fired: it is due again one
\* interval later.
Refired(timers, t) ==
  (timers \ {t}) \cup {[t EXCEPT !.due = @ + t.intervalMs]}

\* executeTask(taskId) invokes the handler of the task stored under taskId,
\* if there is one.
Invokes(sch, taskId) ==
  taskId \in DOMAIN sch.tasks /\ sch.tasks[taskId].handler # ""

\* scheduleTask(task, schedule)
ScheduleTask(id, handler, intervalMs) ==
  /\ CanStep
  /\ ~TimerIsDue
  /\ scheduler' = ScheduleTaskOn(scheduler, id, handler, intervalMs)
  /\ last' = [op |-> "scheduleTask", at |-> now, ret |-> TaskIdOf(id)]
  /\ steps' = steps + 1
  /\ UNCHANGED now
  /\ UNCHANGED OtherThanScheduler

\* cancelTask(taskId)
CancelTask(taskId) ==
  /\ CanStep
  /\ ~TimerIsDue
  /\ scheduler' = CancelTaskOn(scheduler, taskId)
  /\ last' = [op |-> "cancelTask", at |-> now,
              ret |-> taskId \in DOMAIN scheduler.tasks]
  /\ steps' = steps + 1
  /\ UNCHANGED now
  /\ UNCHANGED OtherThanScheduler

\* shutdown()
Shutdown ==
  /\ CanStep
  /\ ~TimerIsDue
  /\ scheduler' = ShutdownOf(scheduler)
  /\ last' = [op |-> "shutdown", at |-> now]
  /\ steps' = steps + 1
  /\ UNCHANGED now
  /\ UNCHANGED OtherThanScheduler

\* An interval timer fires: executeTask(taskId) of the task it was started
\* for.
ExecuteTask(n) ==
  /\ CanStep
  /\ \E t \in scheduler.timers : t.id = n /\ t.due <= now
  /\ LET t == TimerOf(scheduler, n)
     IN  /\ scheduler' = [scheduler EXCEPT !.timers = Refired(@, t)]
         /\ last' = [op |-> "executeTask", at |-> now, timer |-> t.id,
                     task |-> t.task,
                     invoked |-> Invokes(scheduler, t.task)]
  /\ steps' = steps + 1
  /\ UNCHANGED now
  /\ UNCHANGED OtherThanScheduler

\* The clock moves on when no timer is due.
SchedulerAdvance(d) ==
  /\ CanStep
  /\ ~TimerIsDue
  /\ now' = now + d
  /\ steps' = steps + 1
  /\ UNCHANGED <<scheduler, last>>
  /\ UNCHANGED OtherThanScheduler

NextScheduler ==
  \/ \E id \in SchedulerIds, handler \in SchedulerHandlers,
        intervalMs \in SchedulerIntervals :
       ScheduleTask(id, handler, intervalMs)
  \/ \E id \in SchedulerIds : CancelTask(TaskIdOf(id))
  \/ Shutdown
  \/ \E n \in TimerIds : ExecuteTask(n)
  \/ \E d \in SchedulerElapses : SchedulerAdvance(d)

SpecScheduler == Init /\ [][NextScheduler]_vars

\* C37: every interval timer that was started and not cleared is the one
\* recorded in intervals under its task, and no timer that was running when
\* shutdown() was called, or when cancelTask of its task was called, invokes
\* a handler afterwards.
C37_TimersRecorded ==
  /\ \A t \in scheduler.timers :
       /\ t.task \in DOMAIN scheduler.intervals
       /\ scheduler.intervals[t.task] = t.id
  /\ (LastIs("executeTask") /\ last.invoked) =>
       last.timer \notin scheduler.shut

\* The second half of C37 on its own.
C37_NoInvocationAfterShutdown ==
  (LastIs("executeTask") /\ last.invoked) => last.timer \notin scheduler.shut

---------------------------------------------------------------------------
(* A running MoneyMachine: the interval timers of start() fire, each       *)
(* calling executeTask and through the task's handler executeStrategy      *)
(* (src/src/core/strategy-manager.js lines 24-48), which awaits the        *)
(* strategy's validate and then its execute.  The awaited calls take as    *)
(* long as they take: a call resumes at any later time.                    *)

\* The strategies loaded before start() is called; none requires an account.
RunStrategies == { <<"a">>, <<"a", "c">> }

RunElapses == {MinuteMs}

\* How a strategy's execute ends: it resolves, or it rejects.
ExecuteOutcomes == {"resolved", "rejected"}

\* The manager and the log after loadStrategy of each of the names.
RECURSIVE LoadAll(_, _)
LoadAll(state, names) ==
  IF names = <<>> THEN state
  ELSE LoadAll(
         [manager |-> [state.manager EXCEPT
                         !.strategies = WithStrategy(@, Head(names))],
          logger |-> Logged(Logged(state.logger, "info", "Strategy loaded",
                                   [strategy |-> Head(names)]),
                            "info", "Strategy loaded",
                            [strategy |-> Head(names)])],
         Tail(names))

\* await createMoneyMachine(config), loadStrategy of each of the names and
\* start(), all at time 0.
InitRun ==
  \E config \in MachineConfigs, names \in RunStrategies :
    LET created == Logged(Logged(NewLogger([level |->
                                              MergeConfig(config).logLevel]),
                                 "info", "Initializing Money Machine...",
                                 EmptyMap),
                          "info", "Money Machine initialized successfully",
                          EmptyMap)
        loaded == LoadAll([manager |-> NoManager, logger |-> created], names)
    IN  /\ now = 0
        /\ machine = [made |-> TRUE, initialized |-> TRUE, running |-> TRUE,
                      config |-> MergeConfig(config)]
        /\ logger = Logged(loaded.logger, "info", "Money Machine started",
                           EmptyMap)
        /\ manager = loaded.manager
        /\ scheduler = ScheduleAll(NoScheduler, names)
        /\ engine = NewEngine([strictMode |->
                                 IF MergeConfig(config).strictCompliance
                                 THEN "true" ELSE "false"], TRUE)
        /\ platforms = EmptyMap
        /\ platformLimits =
             [q \in DOMAIN ConfiguredLimits |->
                MergeLimits(ConfiguredLimits[q])]
        /\ overridden = DOMAIN ConfiguredLimits
        /\ accounts = EmptyMap
        /\ strategy = NoStrategy
        /\ tasks = EmptyMap
        /\ last = [op |-> "start", at |-> 0, threw |-> FALSE,
                   ignored |-> FALSE]
        /\ grants = Untracked
        /\ emptiedAt = Cleared
        /\ race = EmptyMap
        /\ steps = 0

OtherThanRun ==
  <<platforms, platformLimits, overridden, engine, accounts, strategy,
    machine, tasks, grants, emptiedAt, race>>

\* The executeStrategy calls that are at the given point.
CallsAt(pc) ==
  {i \in 1..Len(manager.calls) : manager.calls[i].pc = pc}

\* An interval timer fires: executeTask calls the task's handler, which
\* calls executeStrategy(strategyId).  For a strategy that is not loaded
\* executeStrategy throws, which executeTask logs; for a loaded one it
\* awaits strategy.validate(context).
RunTask(n) ==
  /\ CanStep
  /\ \E t \in scheduler.timers : t.id = n /\ t.due <= now
  /\ LET t == TimerOf(scheduler, n)
         invoked == Invokes(scheduler, t.task)
         strategyId == scheduler.tasks[t.task].handler
         found == \E i \in 1..Len(manager.strategies) :
                     manager.strategies[i] = strategyId
     IN  /\ scheduler' = [scheduler EXCEPT !.timers = Refired(@, t)]
         /\ last' = [op |-> "executeTask", at |-> now, timer |-> t.id,
                     task |-> t.task, invoked |-> invoked]
         /\ manager' =
              IF invoked /\ found
              THEN [manager EXCEPT
                      !.calls = Append(@, [strategyId |-> strategyId,
                                           pc |-> "validating",
                                           timer |-> t.id])]
              ELSE manager
         /\ logger' =
              IF invoked /\ ~found
              THEN Logged(logger, "error", "Task execution failed",
                          [taskId |-> t.task,
                           error |-> "Strategy not found: " \o strategyId])
              ELSE logger
  /\ steps' = steps + 1
  /\ UNCHANGED now
  /\ UNCHANGED OtherThanRun

\* strategy.validate(context) has resolved: with an invalid validation
\* executeStrategy returns, with a valid one it adds the strategy to
\* activeStrategies and awaits strategy.execute(context).
Validated(i, valid) ==
  /\ i \in CallsAt("validating")
  /\ manager' =
       IF valid
       THEN [manager EXCEPT
               !.activeStrategies = @ \cup {manager.calls[i].strategyId},
               !.calls[i].pc = "executing"]
       ELSE [manager EXCEPT !.calls[i].pc = "returned"]
  /\ UNCHANGED <<now, scheduler, logger, last, steps>>
  /\ UNCHANGED OtherThanRun

\* strategy.execute(context) has settled: a rejection is logged, and in
\* either case the finally block deletes the strategy from activeStrategies.
Executed(i, outcome) ==
  /\ i \in CallsAt("executing")
  /\ manager' =
       [manager EXCEPT
          !.activeStrategies = @ \ {manager.calls[i].strategyId},
          !.calls[i].pc = "returned"]
  /\ logger' =
       IF outcome = "rejected"
       THEN Logged(logger, "error", "Strategy execution failed",
                   [strategyId |-> manager.calls[i].strategyId,
                    error |-> "rejected"])
       ELSE logger
  /\ UNCHANGED <<now, scheduler, last, steps>>
  /\ UNCHANGED OtherThanRun

\* The clock moves on when no timer is due.
RunAdvance(d) ==
  /\ CanStep
  /\ ~TimerIsDue
  /\ now' = now + d
  /\ steps' = steps + 1
  /\ UNCHANGED <<scheduler, manager, logger, last>>
  /\ UNCHANGED OtherThanRun

NextRun ==
  \/ \E n \in TimerIds : RunTask(n)
  \/ \E i \in 1..MaxSteps, valid \in BOOLEAN : Validated(i, valid)
  \/ \E i \in 1..MaxSteps, outcome \in ExecuteOutcomes : Executed(i, outcome)
  \/ \E d \in RunElapses : RunAdvance(d)
  \/ \E strategyIds \in StartArgs : Start(strategyIds)
  \/ Stop

SpecRun == InitRun /\ [][NextRun]_vars

\* The strategies that have an execute in progress.
Executing == {manager.calls[i].strategyId : i \in CallsAt("executing")}

\* C38: activeStrategies holds a strategy id exactly while at least one
\* execute of that strategy is in progress, and is empty when none is.
C38_ActiveWhileExecuting == manager.activeStrategies = Executing

\* C39: while the machine is running, no more executions are in progress
\* than config.maxConcurrentStrategies.
C39_AtMostMaxConcurrent ==
  machine.running =>
    Cardinality(CallsAt("executing")) <= machine.config.maxConcurrentStrategies

=============================================================================
